---- MODULE Spec2Model ----
(***************************************************************************)
(* Unit of Work of the persistence engine (src/lib/unit-of-work/           *)
(* UnitOfWork.ts) together with the relation Collection                    *)
(* (src/unnamed/part_000).  Entities are the instances 1..NumEnt; the      *)
(* value 0 stands for null/undefined (no entity, no primary key).          *)
(***************************************************************************)
EXTENDS Integers, Sequences, FiniteSets, TLC

\* ------------------------------------------------------------------ bounds
NumEnt == 3          \* entity instances in the working set
MaxOps == 2          \* caller operations (persist/remove/merge/lock/clear/mutations)
MaxCommits == 1      \* commit() calls
MaxCalls == 3        \* caller operations of a run that never commits
TxCalls == 1       \* caller operations before commit() in a transaction run

Ent == 1..NumEnt

\* first identifier the store generates: above every key a fixture uses
FirstInsertId == NumEnt + 1

\* ------------------------------------------------------------------ enums
SCALAR == "scalar"
MANY_TO_ONE == "m:1"
ONE_TO_ONE == "1:1"
ONE_TO_MANY == "1:m"
MANY_TO_MANY == "m:n"

CascadePERSIST == "persist"
CascadeMERGE == "merge"
CascadeREMOVE == "remove"
CascadeALL == "all"

CREATE == "create"
UPDATE == "update"
DELETE == "delete"

LockNONE == "NONE"
LockOPTIMISTIC == "OPTIMISTIC"
LockPESSIMISTIC_READ == "PESSIMISTIC_READ"
LockPESSIMISTIC_WRITE == "PESSIMISTIC_WRITE"

\* ------------------------------------------------------------------ metadata
\* One relation descriptor (EntityProperty).  Every entity type of the model
\* has the scalar "name", optionally the scalar "version", at most one to-one
\* relation "ref" and at most one to-many relation "items".
ScalarProp(n) ==
  [name |-> n, reference |-> SCALAR, type |-> "", owner |-> FALSE, nullable |-> FALSE,
   cascade |-> {}, orphanRemoval |-> FALSE, mappedBy |-> ""]

ToOneProp(target, isNullable, casc) ==
  [name |-> "ref", reference |-> MANY_TO_ONE, type |-> target, owner |-> TRUE,
   nullable |-> isNullable, cascade |-> casc, orphanRemoval |-> FALSE, mappedBy |-> ""]

ToManyProp(kind, target, isOwner, casc, orphan, mapped) ==
  [name |-> "items", reference |-> kind, type |-> target, owner |-> isOwner,
   nullable |-> FALSE, cascade |-> casc, orphanRemoval |-> orphan, mappedBy |-> mapped]

DefaultCascade == {CascadePERSIST, CascadeMERGE}

Scenarios == {"library", "node", "mutual", "tree", "tags"}

\* Metadata provider: type name -> EntityMetadata, per scenario.
\*   library: Author{name, items: 1:m Book (orphan removal)},
\*            Book{name, version, ref: required m:1 Author}
\*   node:    Node{name, ref: required m:1 Node, items: owning m:n Node}
\*   mutual:  X{name, ref: required m:1 Y}, Y{name, ref: required m:1 X}
\*   tree:    Tree{name, ref: nullable m:1 Tree (cascade all),
\*                 items: owning m:n Tree (no cascade)}
\*   tags:    Post{name, items: owning m:n Tag},
\*            Tag{name, items: inverse m:n Post, mapped by Post.items}
Metadata(sc) ==
  CASE sc = "library" ->
         [Author |-> [name |-> "Author", versionProperty |-> "",
                      properties |-> << ScalarProp("name"),
                                        ToManyProp(ONE_TO_MANY, "Book", FALSE, DefaultCascade, TRUE, "ref") >>],
          Book   |-> [name |-> "Book", versionProperty |-> "version",
                      properties |-> << ScalarProp("name"), ScalarProp("version"),
                                        ToOneProp("Author", FALSE, DefaultCascade) >>]]
    [] sc = "node" ->
         [Node   |-> [name |-> "Node", versionProperty |-> "",
                      properties |-> << ScalarProp("name"),
                                        ToOneProp("Node", FALSE, DefaultCascade),
                                        ToManyProp(MANY_TO_MANY, "Node", TRUE, DefaultCascade, FALSE, "") >>]]
    [] sc = "mutual" ->
         [X      |-> [name |-> "X", versionProperty |-> "",
                      properties |-> << ScalarProp("name"), ToOneProp("Y", FALSE, DefaultCascade) >>],
          Y      |-> [name |-> "Y", versionProperty |-> "version",
                      properties |-> << ScalarProp("name"), ScalarProp("version"),
                                        ToOneProp("X", FALSE, DefaultCascade) >>]]
    [] sc = "tree" ->
         [Tree   |-> [name |-> "Tree", versionProperty |-> "",
                      properties |-> << ScalarProp("name"),
                                        ToOneProp("Tree", TRUE, {CascadeALL}),
                                        ToManyProp(MANY_TO_MANY, "Tree", TRUE, {}, FALSE, "") >>]]
    [] sc = "tags" ->
         [Post   |-> [name |-> "Post", versionProperty |-> "",
                      properties |-> << ScalarProp("name"),
                                        ToManyProp(MANY_TO_MANY, "Tag", TRUE, DefaultCascade, FALSE, "") >>],
          Tag    |-> [name |-> "Tag", versionProperty |-> "",
                      properties |-> << ScalarProp("name"),
                                        ToManyProp(MANY_TO_MANY, "Post", FALSE, DefaultCascade, FALSE, "items") >>]]

\* entity.constructor.name of instance e
ClassOf(sc, e) ==
  CASE sc = "library" -> IF e = 1 THEN "Author" ELSE "Book"
    [] sc = "node"    -> "Node"
    [] sc = "mutual"  -> IF e % 2 = 1 THEN "X" ELSE "Y"
    [] sc = "tree"    -> "Tree"
    [] sc = "tags"    -> IF e = 1 THEN "Post" ELSE "Tag"

\* ------------------------------------------------------------------ state
VARIABLES
  scn,                 \* scenario: which metadata the provider serves
  pk,                  \* e -> primary key (0: none)              __primaryKey
  ini,                 \* e -> initialized flag                   __initialized
  hasEm,               \* e -> attached to the entity manager     __em
  name,                \* e -> scalar field
  version,             \* e -> version field (0 when the type has none / not loaded)
  ref,                 \* e -> to-one relation value (entity or 0)
  coll,                \* e -> to-many relation value (a Collection)
  identityMap,         \* sequence of [type, id, entity] in insertion order
  originalEntityData,  \* e -> baseline snapshot
  identifierMap,       \* e -> identifier placeholder
  persistStack, removeStack, orphanRemoveStack,
  changeSets, collectionUpdates, extraUpdates,
  phase,               \* position of the running commit(): idle | apply | extra | coll
  csIdx,               \* next change set / collection update to apply
  txOpen,              \* commit() opened its own transaction
  env,                 \* [inTx, supportsTx, implicitTx]
  nextId,              \* next identifier generated by the store
  driverLog,           \* writes handed to the storage driver by the current/last commit
  store,               \* writes that are durably applied, in order
  hist,                \* observations of the last commit() and the last caller operation
  ops, commits         \* budget counters

vars == << scn, pk, ini, hasEm, name, version, ref, coll, identityMap, originalEntityData,
           identifierMap, persistStack, removeStack, orphanRemoveStack, changeSets,
           collectionUpdates, extraUpdates, phase, csIdx, txOpen, env, nextId, driverLog,
           store, hist, ops, commits >>

\* ------------------------------------------------------------------ helpers
Includes(seq, x) == \E i \in 1..Len(seq) : seq[i] = x

IndexOf(seq, x) == IF Includes(seq, x) THEN CHOOSE i \in 1..Len(seq) : seq[i] = x /\ \A j \in 1..(i-1) : seq[j] # x
                   ELSE 0

\* Array.prototype.splice(index, 1)
Splice(seq, i) == [j \in 1..(Len(seq) - 1) |-> IF j < i THEN seq[j] ELSE seq[j + 1]]

\* Array.prototype.reverse
Reverse(seq) == [j \in 1..Len(seq) |-> seq[Len(seq) + 1 - j]]

NoData == [has |-> FALSE, name |-> 0, version |-> 0, ref |-> 0]
NoIdentifier == [has |-> FALSE, value |-> 0]
\* new EntityIdentifier(): present, not yet resolved
NewIdentifier == [has |-> TRUE, value |-> 0]
NoPayload == [fields |-> {}, name |-> 0, version |-> 0, ref |-> 0, ident |-> 0]

\* new Collection(owner): no items given, so initialized defaults to true
NewCollection == [items |-> << >>, initialized |-> TRUE, dirty |-> FALSE, snapshot |-> << >>]

Props(s, e) == Metadata(s.sc)[ClassOf(s.sc, e)].properties

RefProp(sc, cls) ==
  LET ps == Metadata(sc)[cls].properties
      idx == {i \in 1..Len(ps) : ps[i].name = "ref"}
  IN IF idx = {} THEN ScalarProp("none") ELSE ps[CHOOSE i \in idx : TRUE]

ItemsProp(sc, cls) ==
  LET ps == Metadata(sc)[cls].properties
      idx == {i \in 1..Len(ps) : ps[i].name = "items"}
  IN IF idx = {} THEN ScalarProp("none") ELSE ps[CHOOSE i \in idx : TRUE]

IsVersioned(sc, cls) == Metadata(sc)[cls].versionProperty # ""

\* ------------------------------------------------------------------ identity map
\* identityMap[`${name}-${serializedPrimaryKey}`]: a dictionary whose values are
\* enumerated in insertion order.
IMIndex(im, t, id) ==
  LET idx == {i \in 1..Len(im) : im[i].type = t /\ im[i].id = id}
  IN IF idx = {} THEN 0 ELSE CHOOSE i \in idx : TRUE

IMSet(im, t, id, e) ==
  LET i == IMIndex(im, t, id)
  IN IF i = 0 THEN Append(im, [type |-> t, id |-> id, entity |-> e])
     ELSE [im EXCEPT ![i].entity = e]

IMDelete(im, t, id) ==
  LET i == IMIndex(im, t, id) IN IF i = 0 THEN im ELSE Splice(im, i)

getById(im, entityName, id) ==
  LET i == IMIndex(im, entityName, id) IN IF i = 0 THEN 0 ELSE im[i].entity

\* Utils.extractPK: the primary key inside a filter, 0 when the filter holds none
tryGetById(im, entityName, wherePk) ==
  IF wherePk = 0 THEN 0 ELSE getById(im, entityName, wherePk)

\* ------------------------------------------------------------------ stacks
RECURSIVE cleanUpFrom(_, _, _, _)
\* for (const index in stack): the indices are those present when the loop starts; an
\* index that no longer exists after a splice is skipped
cleanUpFrom(stack, entity, i, n) ==
  IF i > n THEN stack
  ELSE IF i <= Len(stack) /\ stack[i] = entity
       THEN cleanUpFrom(Splice(stack, i), entity, i + 1, n)
       ELSE cleanUpFrom(stack, entity, i + 1, n)

cleanUpStack(stack, entity) == cleanUpFrom(stack, entity, 1, Len(stack))

\* ------------------------------------------------------------------ snapshots
\* Utils.prepareEntity: shallow copy of the persistable fields; a to-one relation is
\* stored as the target's primary key and left out while the target has none
prepareEntity(s, e) ==
  [has |-> TRUE, name |-> s.name[e], version |-> s.version[e],
   ref |-> IF s.ref[e] # 0 THEN s.pk[s.ref[e]] ELSE 0]

\* variant: the registry entry is kept
unsetIdentityMutant(s, e) ==
  [s EXCEPT !.identifierMap[e] = NoIdentifier,
            !.originalEntityData[e] = NoData]

unsetIdentity(s, e) ==
  [s EXCEPT !.identityMap = IMDelete(@, ClassOf(s.sc, e), s.pk[e]),
            !.identifierMap[e] = NoIdentifier,
            !.originalEntityData[e] = NoData]

\* ------------------------------------------------------------------ collection
CollIsInitialized(s, c, fully) ==
  IF fully THEN c.initialized /\ \A i \in 1..Len(c.items) : s.ini[c.items[i]]
  ELSE c.initialized

\* ------------------------------------------------------------------ collection operations
\* validateModification(items): the error it throws, "none" when it returns.  The item's
\* property named by mappedBy is its collection of the owning side.
validateModification(s, owner, items) ==
  IF /\ ItemsProp(s.sc, ClassOf(s.sc, owner)).reference = MANY_TO_MANY
     /\ ItemsProp(s.sc, ClassOf(s.sc, owner)).mappedBy # ""
     /\ \E i \in 1..Len(items) :
          \/ ItemsProp(s.sc, ClassOf(s.sc, items[i])).name
                # ItemsProp(s.sc, ClassOf(s.sc, owner)).mappedBy
          \/ ~CollIsInitialized(s, s.coll[items[i]], FALSE)
  THEN "cannotModifyInverseCollection"
  ELSE "none"

\* ArrayCollection.add / remove / set on the item array: an item is held once
RECURSIVE addItems(_, _, _)
addItems(list, items, i) ==
  IF i > Len(items) THEN list
  ELSE addItems(IF Includes(list, items[i]) THEN list ELSE Append(list, items[i]), items, i + 1)

RECURSIVE removeItems(_, _, _)
removeItems(list, items, i) ==
  IF i > Len(items) THEN list
  ELSE removeItems(SelectSeq(list, LAMBDA x : x # items[i]), items, i + 1)

\* setDirty(): only the owning side is ever dirty
setDirty(s, owner) ==
  [s EXCEPT !.coll[owner].dirty = ItemsProp(s.sc, ClassOf(s.sc, owner)).owner]

\* variant: nothing is scheduled
scheduleOrphanRemovalMutant(s, e) == s

scheduleOrphanRemoval(s, e) == [s EXCEPT !.orphanRemoveStack = Append(@, e)]

cancelOrphanRemoval(s, e) ==
  [s EXCEPT !.orphanRemoveStack = cleanUpStack(@, e)]

RECURSIVE scheduleAll(_, _, _)
scheduleAll(s, items, i) ==
  IF i > Len(items) THEN s ELSE scheduleAll(scheduleOrphanRemoval(s, items[i]), items, i + 1)

RECURSIVE cancelAll(_, _, _)
cancelAll(s, items, i) ==
  IF i > Len(items) THEN s ELSE cancelAll(cancelOrphanRemoval(s, items[i]), items, i + 1)

\* Collection.cancelOrphanRemoval(items): nothing without an entity manager on the owner
collCancelOrphanRemoval(s, owner, items) ==
  IF s.hasEm[owner] THEN cancelAll(s, items, 1) ELSE s

\* Collection.modify(method, items) up to the array operation: the error it throws
modifyError(s, owner, items) ==
  IF ~CollIsInitialized(s, s.coll[owner], FALSE) THEN "notInitialized"
  ELSE validateModification(s, owner, items)

Thrown(s, error) == [s |-> s, err |-> error]

\* Collection.add(...items)
collAdd(s, owner, items) ==
  IF modifyError(s, owner, items) # "none" THEN Thrown(s, modifyError(s, owner, items))
  ELSE Thrown(collCancelOrphanRemoval(
                setDirty([s EXCEPT !.coll[owner].items = addItems(@, items, 1)], owner),
                owner, items), "none")

\* Collection.remove(...items)
collRemove(s, owner, items) ==
  IF modifyError(s, owner, items) # "none" THEN Thrown(s, modifyError(s, owner, items))
  ELSE IF ItemsProp(s.sc, ClassOf(s.sc, owner)).orphanRemoval /\ s.hasEm[owner]
       THEN Thrown(scheduleAll(
                     setDirty([s EXCEPT !.coll[owner].items = removeItems(@, items, 1)], owner),
                     items, 1), "none")
       ELSE Thrown(setDirty([s EXCEPT !.coll[owner].items = removeItems(@, items, 1)], owner),
                   "none")

\* Collection.set(items)
collSet(s, owner, items) ==
  IF validateModification(s, owner, items) # "none"
  THEN Thrown(s, validateModification(s, owner, items))
  ELSE Thrown(collCancelOrphanRemoval(
                setDirty([s EXCEPT !.coll[owner].items = addItems(<< >>, items, 1)], owner),
                owner, items), "none")

\* ------------------------------------------------------------------ cascade walker
\* variant: every relation lets every operation through
shouldCascadeMutant(prop, type) == TRUE

shouldCascade(prop, type) ==
  IF type = CascadeREMOVE /\ prop.orphanRemoval THEN TRUE
  ELSE type \in prop.cascade \/ CascadeALL \in prop.cascade

RECURSIVE merge(_, _, _)
RECURSIVE persist(_, _, _)
RECURSIVE remove(_, _)
RECURSIVE cascade(_, _, _, _)
RECURSIVE cascadeProps(_, _, _, _, _)
RECURSIVE cascadeItems(_, _, _, _, _)

\* visited.push(entity)
MarkVisited(s, e) == [s EXCEPT !.visited = @ \cup {e}]

cascadeReference(s, e, prop, type, checkRemoveStack) ==
  IF ~shouldCascade(prop, type) THEN s
  ELSE IF prop.reference \in {MANY_TO_ONE, ONE_TO_ONE} /\ s.ref[e] # 0
       THEN cascade(s, s.ref[e], type, checkRemoveStack)
       ELSE IF /\ prop.reference \in {ONE_TO_MANY, MANY_TO_MANY}
               /\ CollIsInitialized(s, s.coll[e], type = CascadePERSIST)
            THEN cascadeItems(s, s.coll[e].items, 1, type, checkRemoveStack)
            ELSE s

cascadeItems(s, items, i, type, checkRemoveStack) ==
  IF i > Len(items) THEN s
  ELSE cascadeItems(cascade(s, items[i], type, checkRemoveStack), items, i + 1, type, checkRemoveStack)

\* the loop of cascade() skips scalar properties
cascadeProperty(s, e, prop, type, checkRemoveStack) ==
  IF prop.reference # SCALAR THEN cascadeReference(s, e, prop, type, checkRemoveStack) ELSE s

cascadeProps(s, e, type, checkRemoveStack, i) ==
  IF i > Len(Props(s, e)) THEN s
  ELSE cascadeProps(cascadeProperty(s, e, Props(s, e)[i], type, checkRemoveStack),
                    e, type, checkRemoveStack, i + 1)

\* the switch of cascade()
cascadeOperation(s, e, type, checkRemoveStack) ==
  CASE type = CascadePERSIST -> persist(s, e, checkRemoveStack)
    [] type = CascadeMERGE   -> merge(s, e, TRUE)
    [] type = CascadeREMOVE  -> remove(s, e)

\* the loop over the relations of e starts: e is noted in the walk log of the call
Walk(s, e) == [s EXCEPT !.walked = Append(@, e)]

\* variant: an entity is let through until its relations have been walked twice
cascadeMutant(s, e, type, checkRemoveStack) ==
  IF Cardinality({i \in 1..Len(s.walked) : s.walked[i] = e}) >= 2 THEN s
  ELSE cascadeProps(Walk(cascadeOperation(MarkVisited(s, e), e, type, checkRemoveStack), e),
                    e, type, checkRemoveStack, 1)

cascade(s, e, type, checkRemoveStack) ==
  IF e \in s.visited THEN s
  ELSE cascadeProps(Walk(cascadeOperation(MarkVisited(s, e), e, type, checkRemoveStack), e),
                    e, type, checkRemoveStack, 1)

\* variant: an identity that is already registered keeps its instance
mergeIdentifiedMutant(s, e, mergeData) ==
  [s EXCEPT !.identityMap = IF getById(@, ClassOf(s.sc, e), s.pk[e]) # 0 THEN @
                            ELSE IMSet(@, ClassOf(s.sc, e), s.pk[e], e),
            !.originalEntityData[e] = IF mergeData THEN prepareEntity(s, e) ELSE @]

\* merge() once the entity is known to have a primary key
mergeIdentified(s, e, mergeData) ==
  [s EXCEPT !.identityMap = IMSet(@, ClassOf(s.sc, e), s.pk[e], e),
            !.originalEntityData[e] = IF mergeData THEN prepareEntity(s, e) ELSE @]

merge(s, e, mergeData) ==
  IF s.pk[e] = 0 THEN [s EXCEPT !.hasEm[e] = TRUE]
  ELSE cascade(mergeIdentified([s EXCEPT !.hasEm[e] = TRUE], e, mergeData), e, CascadeMERGE, FALSE)

\* variant: the remove stack is left as it is
pushPersistMutant(s, e) ==
  [s EXCEPT !.identifierMap[e] = IF s.pk[e] = 0 THEN NewIdentifier ELSE @,
            !.persistStack = Append(@, e)]

\* persist() past its two early returns, up to the cascade
pushPersist(s, e) ==
  [s EXCEPT !.identifierMap[e] = IF s.pk[e] = 0 THEN NewIdentifier ELSE @,
            !.persistStack = Append(@, e),
            !.removeStack = cleanUpStack(@, e)]

persist(s, e, checkRemoveStack) ==
  IF Includes(s.persistStack, e) THEN s
  ELSE IF checkRemoveStack /\ Includes(s.removeStack, e) THEN s
  ELSE cascade(pushPersist(s, e), e, CascadePERSIST, checkRemoveStack)

\* variant: pushed whatever the primary key, the persist stack is left as it is
pushRemoveMutant(s, e) == [s EXCEPT !.removeStack = Append(@, e)]

\* remove() past its early return, up to unsetIdentity
pushRemove(s, e) ==
  [s EXCEPT !.removeStack = IF s.pk[e] # 0 THEN Append(@, e) ELSE @,
            !.persistStack = cleanUpStack(@, e)]

remove(s, e) ==
  IF Includes(s.removeStack, e) THEN s
  ELSE cascade(unsetIdentity(pushRemove(s, e), e), e, CascadeREMOVE, FALSE)

\* a top-level call starts with an empty visited list
Fresh(s) == [s EXCEPT !.visited = {}, !.walked = << >>]

\* ------------------------------------------------------------------ change-set computer
PersistableFields(s, e) ==
  {"name"} \cup (IF IsVersioned(s.sc, ClassOf(s.sc, e)) THEN {"version"} ELSE {})
           \cup (IF s.ref[e] # 0 THEN {"ref"} ELSE {})

\* Utils.diffEntities: the fields whose prepared value differs from the snapshot
diffEntities(orig, cur) ==
  {f \in {"name", "version", "ref"} : cur[f] # orig[f]}

\* the changed fields: all persistable fields when there is no snapshot; a to-one target
\* without primary key is always written, as that target's identifier placeholder
ChangedFields(s, e) ==
  (IF s.originalEntityData[e].has
   THEN diffEntities(s.originalEntityData[e], prepareEntity(s, e))
   ELSE PersistableFields(s, e))
  \cup (IF s.ref[e] # 0 /\ s.pk[s.ref[e]] = 0 THEN {"ref"} ELSE {})

Payload(s, e, fields) ==
  [fields |-> fields,
   name |-> IF "name" \in fields THEN s.name[e] ELSE 0,
   version |-> IF "version" \in fields THEN s.version[e] ELSE 0,
   ref |-> IF "ref" \in fields /\ s.ref[e] # 0 THEN s.pk[s.ref[e]] ELSE 0,
   ident |-> IF s.ref[e] # 0 /\ s.pk[s.ref[e]] = 0 THEN s.ref[e] ELSE 0]

\* a dirty owning many-to-many collection is queued for synchronization
QueueCollection(s, e) ==
  IF /\ ItemsProp(s.sc, ClassOf(s.sc, e)).reference = MANY_TO_MANY
     /\ ItemsProp(s.sc, ClassOf(s.sc, e)).owner
     /\ s.coll[e].dirty
  THEN [s EXCEPT !.collectionUpdates = Append(@, e)] ELSE s

ChangeSetOf(s, e, fields) ==
  [exists |-> (~s.originalEntityData[e].has) \/ fields # {},
   cs |-> [type |-> IF s.pk[e] = 0 THEN CREATE ELSE UPDATE,
           name |-> ClassOf(s.sc, e), entity |-> e, payload |-> Payload(s, e, fields),
           persisted |-> FALSE],
   s |-> QueueCollection(s, e)]

\* ChangeSetComputer.computeChangeSet: payload = changed fields only; CREATE when no
\* primary key is assigned, else UPDATE; no change set when a snapshot exists and
\* nothing differs
computeChangeSet(s, e) == ChangeSetOf(s, e, ChangedFields(s, e))

\* ------------------------------------------------------------------ discovery
isCollectionSelfReferenced(s, collection) ==
  \E i \in 1..Len(collection.items) :
     /\ ~s.originalEntityData[collection.items[i]].has
     /\ collection.items[i] \in s.visited

RECURSIVE findNewEntities(_, _)
RECURSIVE findNewProps(_, _, _)
RECURSIVE findNewItems(_, _, _)

processToOneReference(s, reference) ==
  IF ~s.originalEntityData[reference].has THEN findNewEntities(s, reference) ELSE s

\* the items without snapshot, selected before the first of them is visited
NotSnapshotted(s, items) ==
  SelectSeq(items, LAMBDA it : ~s.originalEntityData[it].has)

\* variant: the collection is queued and the live relation keeps it
processToManyReferenceMutant(s, parent, prop) ==
  IF isCollectionSelfReferenced(s, s.coll[parent])
  THEN [s EXCEPT !.extraUpdates = Append(@, [entity |-> parent, prop |-> prop.name,
                                              ent |-> 0, coll |-> s.coll[parent]])]
  ELSE findNewItems(s, NotSnapshotted(s, s.coll[parent].items), 1)

processToManyReference(s, parent, prop) ==
  IF isCollectionSelfReferenced(s, s.coll[parent])
  THEN [s EXCEPT !.extraUpdates = Append(@, [entity |-> parent, prop |-> prop.name,
                                              ent |-> 0, coll |-> s.coll[parent]]),
                 !.coll[parent] = NewCollection]
  ELSE findNewItems(s, NotSnapshotted(s, s.coll[parent].items), 1)

findNewItems(s, items, i) ==
  IF i > Len(items) THEN s
  ELSE findNewItems(findNewEntities(s, items[i]), items, i + 1)

processReference(s, parent, prop) ==
  IF prop.reference \in {MANY_TO_ONE, ONE_TO_ONE} /\ s.ref[parent] # 0
  THEN processToOneReference(s, s.ref[parent])
  ELSE IF prop.reference = MANY_TO_MANY /\ s.coll[parent].dirty
       THEN processToManyReference(s, parent, prop)
       ELSE s

findNewProps(s, e, i) ==
  IF i > Len(Props(s, e)) THEN s
  ELSE findNewProps(processReference(s, e, Props(s, e)[i]), e, i + 1)

\* an entity without primary key gets an identifier placeholder if it has none
ensureIdentifier(s, e) ==
  IF s.pk[e] = 0 /\ ~s.identifierMap[e].has
  THEN [s EXCEPT !.identifierMap[e] = NewIdentifier] ELSE s

\* variant: the entity stays on the persist stack
recordChangeSetMutant(r, e) ==
  IF r.exists
  THEN [r.s EXCEPT !.changeSets = Append(@, r.cs),
                   !.originalEntityData[e] = prepareEntity(r.s, e)]
  ELSE r.s

\* the tail of findNewEntities: the change set is appended, the entity leaves the
\* persist stack and its snapshot is refreshed
recordChangeSet(r, e) ==
  IF r.exists
  THEN [r.s EXCEPT !.changeSets = Append(@, r.cs),
                   !.persistStack = cleanUpStack(@, e),
                   !.originalEntityData[e] = prepareEntity(r.s, e)]
  ELSE r.s

discover(s, e) ==
  IF ~s.ini[e] THEN s
  ELSE recordChangeSet(computeChangeSet(findNewProps(ensureIdentifier(s, e), e, 1), e), e)

findNewEntities(s, e) ==
  IF e \in s.visited THEN s ELSE discover(MarkVisited(s, e), e)

RECURSIVE persistManaged(_, _, _)
persistManaged(s, list, i) ==
  IF i > Len(list) THEN s
  ELSE persistManaged(persist(Fresh(s), list[i], TRUE), list, i + 1)

\* Object.values(identityMap).filter(...): the filter has run over every value before
\* the first persist
ManagedToPersist(s) ==
  SelectSeq([i \in 1..Len(s.identityMap) |-> s.identityMap[i].entity],
            LAMBDA en : ~Includes(s.removeStack, en) /\ ~Includes(s.orphanRemoveStack, en))

RECURSIVE drainPersistStack(_)
drainPersistStack(s) ==
  IF Len(s.persistStack) = 0 THEN s
  ELSE drainPersistStack(findNewEntities(Fresh([s EXCEPT !.persistStack = Tail(@)]),
                                         Head(s.persistStack)))

RECURSIVE removeOrphans(_, _, _)
removeOrphans(s, list, i) ==
  IF i > Len(list) THEN s
  ELSE removeOrphans(remove(Fresh(s), list[i]), list, i + 1)

DeleteChangeSet(s, e) ==
  [type |-> DELETE, name |-> ClassOf(s.sc, e), entity |-> e, payload |-> NoPayload,
   persisted |-> FALSE]

\* variant: managed entities are not persisted again
persistAllManagedMutant(s) == [s EXCEPT !.changeSets = << >>]

\* the four loops of computeChangeSets, one operator each
persistAllManaged(s) == persistManaged([s EXCEPT !.changeSets = << >>], ManagedToPersist(s), 1)

\* variant: the orphan-removal stack is not folded into remove
removeAllOrphansMutant(s) == s

removeAllOrphans(s) == removeOrphans(s, s.orphanRemoveStack, 1)

pushDeleteChangeSets(s) ==
  [s EXCEPT !.changeSets =
     @ \o [i \in 1..Len(s.removeStack) |-> DeleteChangeSet(s, s.removeStack[i])]]

computeChangeSets(s) ==
  pushDeleteChangeSets(removeAllOrphans(drainPersistStack(persistAllManaged(s))))

\* ------------------------------------------------------------------ commit order
RECURSIVE Unique(_)
\* Utils.unique: first occurrences, in order
Unique(seq) ==
  IF Len(seq) = 0 THEN << >>
  ELSE LET init == Unique(SubSeq(seq, 1, Len(seq) - 1))
           last == seq[Len(seq)]
       IN IF Includes(init, last) THEN init ELSE Append(init, last)

NOT_VISITED == "not_visited"
IN_PROGRESS == "in_progress"
VISITED == "visited"

\* addCommitDependency: only owning to-one relations add an edge target -> owner,
\* weight 1 when the relation is required and 0 when it is nullable
IsCommitDependency(prop) ==
  (prop.reference = ONE_TO_ONE /\ prop.owner) \/ prop.reference = MANY_TO_ONE

RECURSIVE DependenciesOfType(_, _, _, _, _)
\* the edges the properties of one type add, in property order
DependenciesOfType(sc, types, deps, entityName, i) ==
  LET ps == Metadata(sc)[entityName].properties
  IN IF i > Len(ps) THEN deps
     ELSE LET prop == ps[i]
              from == prop.type
              edge == [to |-> entityName, weight |-> IF prop.nullable THEN 0 ELSE 1]
              old == {k \in 1..Len(deps[from]) : deps[from][k].to = entityName}
              deps1 == IF Includes(types, prop.type) /\ IsCommitDependency(prop)
                       THEN IF old = {}
                            THEN [deps EXCEPT ![from] = Append(@, edge)]
                            ELSE [deps EXCEPT ![from][CHOOSE k \in old : TRUE] = edge]
                       ELSE deps
          IN DependenciesOfType(sc, types, deps1, entityName, i + 1)

RECURSIVE Dependencies(_, _, _, _)
\* let entityName = types.pop(): the types are taken from the last to the first
Dependencies(sc, types, deps, k) ==
  IF k = 0 THEN deps
  ELSE Dependencies(sc, types, DependenciesOfType(sc, types, deps, types[k], 1), k - 1)

HasEdge(deps, from, to) == \E k \in 1..Len(deps[from]) : deps[from][k].to = to
EdgeWeight(deps, from, to) ==
  deps[from][CHOOSE k \in 1..Len(deps[from]) : deps[from][k].to = to].weight

RECURSIVE visit(_, _, _)
RECURSIVE visitEdges(_, _, _, _)
RECURSIVE visitOpenEdges(_, _, _, _)

\* a node still open on the walk is closed early only when it depends back on the
\* current node through an edge of lower weight
closeOpenNode(c, target) ==
  [c EXCEPT !.state[target] = VISITED, !.sorted = Append(@, target)]

visitOpenNode(c, deps, node, target, edge) ==
  IF ~HasEdge(deps, target, node) \/ EdgeWeight(deps, target, node) >= edge.weight THEN c
  ELSE closeOpenNode(visitOpenEdges(c, deps, target, 1), target)

visitIfNew(c, deps, to) ==
  IF c.state[to] = NOT_VISITED THEN visit(c, deps, to) ELSE c

visitOpenEdges(c, deps, target, i) ==
  IF i > Len(deps[target]) THEN c
  ELSE visitOpenEdges(visitIfNew(c, deps, deps[target][i].to), deps, target, i + 1)

visitEdge(c, deps, node, edge) ==
  CASE c.state[edge.to] = VISITED -> c
    [] c.state[edge.to] = IN_PROGRESS -> visitOpenNode(c, deps, node, edge.to, edge)
    [] c.state[edge.to] = NOT_VISITED -> visit(c, deps, edge.to)

visitEdges(c, deps, node, i) ==
  IF i > Len(deps[node]) THEN c
  ELSE visitEdges(visitEdge(c, deps, node, deps[node][i]), deps, node, i + 1)

closeNode(c, node) ==
  IF c.state[node] # VISITED
  THEN [c EXCEPT !.state[node] = VISITED, !.sorted = Append(@, node)]
  ELSE c

visit(c, deps, node) ==
  closeNode(visitEdges([c EXCEPT !.state[node] = IN_PROGRESS], deps, node, 1), node)

RECURSIVE sortNodes(_, _, _, _)
sortNodes(c, deps, types, i) ==
  IF i > Len(types) THEN c
  ELSE sortNodes(visitIfNew(c, deps, types[i]), deps, types, i + 1)

\* CommitOrderCalculator.sort: depth-first walk over the dependency edges, the list
\* of closed nodes reversed
CalcSort(deps, types) ==
  LET T == {types[i] : i \in 1..Len(types)}
      c0 == [state |-> [x \in T |-> NOT_VISITED], sorted |-> << >>]
  IN Reverse(sortNodes(c0, deps, types, 1).sorted)

getCommitOrder(sc, list) ==
  LET types == Unique([i \in 1..Len(list) |-> list[i].name])
      T == {types[i] : i \in 1..Len(types)}
      deps == Dependencies(sc, types, [x \in T |-> << >>], Len(types))
  IN CalcSort(deps, types)

\* ------------------------------------------------------------------ reorder
TypeOrder == << CREATE, UPDATE, DELETE >>

\* variant: equal keys fall back to the reverse list position
compareMutant(arr, i, j, ki, kj) ==
  IF IndexOf(arr, ki) = IndexOf(arr, kj) THEN j - i
  ELSE IndexOf(arr, ki) - IndexOf(arr, kj)

\* compare(base, arr, a, b, key): a and b are positions in the copy of the list
compare(arr, i, j, ki, kj) ==
  IF IndexOf(arr, ki) = IndexOf(arr, kj) THEN i - j
  ELSE IndexOf(arr, ki) - IndexOf(arr, kj)

\* variant: DELETE change sets follow the commit order like the others
compareChangeSetsMutant(copy, commitOrder, i, j) ==
  LET a == copy[i]
      b == copy[j]
  IN IF a.type # b.type THEN compare(TypeOrder, i, j, a.type, b.type)
     ELSE compare(commitOrder, i, j, a.name, b.name)

compareChangeSets(copy, commitOrder, i, j) ==
  LET a == copy[i]
      b == copy[j]
  IN IF a.type # b.type THEN compare(TypeOrder, i, j, a.type, b.type)
     ELSE IF a.type = DELETE THEN compare(Reverse(commitOrder), i, j, a.name, b.name)
     ELSE compare(commitOrder, i, j, a.name, b.name)

RECURSIVE InsertSorted(_, _, _, _)
InsertSorted(copy, commitOrder, sorted, i) ==
  IF Len(sorted) = 0 THEN << i >>
  ELSE IF compareChangeSets(copy, commitOrder, i, Head(sorted)) < 0
       THEN << i >> \o sorted
       ELSE << Head(sorted) >> \o InsertSorted(copy, commitOrder, Tail(sorted), i)

RECURSIVE SortPositions(_, _, _)
SortPositions(copy, commitOrder, n) ==
  IF n = 0 THEN << >>
  ELSE InsertSorted(copy, commitOrder, SortPositions(copy, commitOrder, n - 1), n)

\* this.changeSets.sort(...): the positions of the copy in sorted order
reorderChangeSets(sc, list) ==
  LET commitOrder == getCommitOrder(sc, list)
      perm == SortPositions(list, commitOrder, Len(list))
  IN [i \in 1..Len(list) |-> list[perm[i]]]

\* ------------------------------------------------------------------ commit coordinator
\* variant: the stacks are kept
postCommitCleanupMutant(s) ==
  [s EXCEPT !.identifierMap = [e \in Ent |-> NoIdentifier],
            !.changeSets = << >>, !.collectionUpdates = << >>, !.extraUpdates = << >>]

postCommitCleanup(s) ==
  [s EXCEPT !.identifierMap = [e \in Ent |-> NoIdentifier],
            !.persistStack = << >>, !.removeStack = << >>, !.orphanRemoveStack = << >>,
            !.changeSets = << >>, !.collectionUpdates = << >>, !.extraUpdates = << >>]

\* this.changeSets.find(cs => cs.entity === target): the first change set of the list
\* for that entity; scheduled for insert = a CREATE that is not persisted yet
IsScheduledForInsert(s, target) ==
  \E k \in 1..Len(s.changeSets) :
     /\ s.changeSets[k].entity = target
     /\ \A j \in 1..(k - 1) : s.changeSets[j].entity # target
     /\ s.changeSets[k].type = CREATE
     /\ ~s.changeSets[k].persisted

\* one relation is moved to the extra updates and deleted from entity and payload
stripProperty(r, e, prop) ==
  [s |-> [r.s EXCEPT !.extraUpdates = Append(@, [entity |-> e, prop |-> prop.name,
                                                 ent |-> r.s.ref[e], coll |-> NewCollection]),
                     !.ref[e] = 0],
   payload |-> [r.payload EXCEPT !.fields = @ \ {prop.name}, !.ref = 0, !.ident = 0]]

RECURSIVE stripPending(_, _, _)
\* variant: no relation is deferred
stripPendingMutant(r, e, i) == r

\* variant: every owning to-one relation is deferred, whatever the state of its target
stripAlwaysMutant(r, e, i) ==
  IF i > Len(Props(r.s, e)) THEN r
  ELSE IF IsCommitDependency(Props(r.s, e)[i]) /\ r.s.ref[e] # 0
       THEN stripPending(stripProperty(r, e, Props(r.s, e)[i]), e, i + 1)
       ELSE stripPending(r, e, i + 1)

\* commitChangeSet, CREATE only: every owning to-one relation whose target is still
\* scheduled for insert
stripPending(r, e, i) ==
  IF i > Len(Props(r.s, e)) THEN r
  ELSE IF /\ IsCommitDependency(Props(r.s, e)[i])
          /\ r.s.ref[e] # 0
          /\ IsScheduledForInsert(r.s, r.s.ref[e])
       THEN stripPending(stripProperty(r, e, Props(r.s, e)[i]), e, i + 1)
       ELSE stripPending(r, e, i + 1)

\* the value the driver receives for the to-one field: a placeholder is resolved to
\* the identifier its entity has been given, 0 (null) when it has none yet
ResolvedRef(s, payload) ==
  IF "ref" \in payload.fields /\ payload.ident # 0
  THEN s.identifierMap[payload.ident].value ELSE payload.ref

LogEntry(s, cs, payload) ==
  [type |-> cs.type, entity |-> cs.entity, name |-> cs.name, fields |-> payload.fields,
   ref |-> ResolvedRef(s, payload), target |-> payload.ident,
   pending |-> /\ "ref" \in payload.fields
               /\ payload.ident # 0
               /\ IsScheduledForInsert(s, payload.ident)]

\* a generated identifier is mapped back to the entity and to its placeholder
mapPrimaryKey(s, e) ==
  [s EXCEPT !.pk[e] = s.nextId, !.nextId = @ + 1,
            !.identifierMap[e] = IF @.has THEN [@ EXCEPT !.value = s.nextId] ELSE @]

markPersisted(s, listIdx, resolved) ==
  IF listIdx = 0 THEN s
  ELSE [s EXCEPT !.changeSets[listIdx].payload.ref = resolved,
                 !.changeSets[listIdx].persisted = TRUE]

\* ChangeSetPersister.persistToDatabase: placeholders in the payload are resolved, the
\* write is handed to the driver, the change set is marked persisted
persistChangeSet(s, cs, payload, listIdx) ==
  markPersisted(
    IF cs.type = CREATE
    THEN (IF s.pk[cs.entity] = 0
          THEN mapPrimaryKey([s EXCEPT !.driverLog = Append(@, LogEntry(s, cs, payload)),
                                       !.ini[cs.entity] = TRUE], cs.entity)
          ELSE [s EXCEPT !.driverLog = Append(@, LogEntry(s, cs, payload)),
                         !.ini[cs.entity] = TRUE])
    ELSE [s EXCEPT !.driverLog = Append(@, LogEntry(s, cs, payload))],
    listIdx, ResolvedRef(s, payload))

\* variant: a written CREATE or UPDATE is not merged back
foldBackMutant(s, cs) ==
  IF cs.type = DELETE THEN unsetIdentity(s, cs.entity) ELSE s

\* the switch of commitChangeSet after the driver call
foldBack(s, cs) ==
  IF cs.type = DELETE THEN unsetIdentity(s, cs.entity)
  ELSE merge(Fresh(s), cs.entity, TRUE)

storePayload(r, listIdx) ==
  IF listIdx = 0 THEN r.s ELSE [r.s EXCEPT !.changeSets[listIdx].payload = r.payload]

writeChangeSet(r, cs, listIdx, ok) ==
  IF ~ok THEN storePayload(r, listIdx)
  ELSE foldBack(persistChangeSet(storePayload(r, listIdx), cs, r.payload, listIdx), cs)

\* commitChangeSet(changeSet, ctx); listIdx is the position of the change set in
\* this.changeSets, 0 for the change set of an extra update.  ok = FALSE: the driver
\* call throws.
commitChangeSet(s, cs, listIdx, ok) ==
  writeChangeSet(IF cs.type = CREATE
                 THEN stripPending([s |-> s, payload |-> cs.payload], cs.entity, 1)
                 ELSE [s |-> s, payload |-> cs.payload],
                 cs, listIdx, ok)

\* extraUpdates.shift() and the assignment of the deferred value to the live entity
assignExtraUpdate(s) ==
  [s EXCEPT !.extraUpdates = Tail(@),
            !.ref[Head(s.extraUpdates).entity] =
               IF Head(s.extraUpdates).prop = "ref" THEN Head(s.extraUpdates).ent ELSE @,
            !.coll[Head(s.extraUpdates).entity] =
               IF Head(s.extraUpdates).prop = "ref" THEN @ ELSE Head(s.extraUpdates).coll]

\* Collection.takeSnapshot after driver.syncCollection
takeSnapshot(c) == [c EXCEPT !.snapshot = c.items, !.dirty = FALSE]

\* ------------------------------------------------------------------ state record
\* the program state as one value, threaded through the operators above
St ==
  [sc |-> scn, pk |-> pk, ini |-> ini, hasEm |-> hasEm, name |-> name, version |-> version,
   ref |-> ref, coll |-> coll, identityMap |-> identityMap,
   originalEntityData |-> originalEntityData, identifierMap |-> identifierMap,
   persistStack |-> persistStack, removeStack |-> removeStack,
   orphanRemoveStack |-> orphanRemoveStack, changeSets |-> changeSets,
   collectionUpdates |-> collectionUpdates, extraUpdates |-> extraUpdates,
   nextId |-> nextId, driverLog |-> driverLog, visited |-> {},
   walked |-> << >>]

Becomes(s) ==
  /\ scn' = scn
  /\ pk' = s.pk /\ ini' = s.ini /\ hasEm' = s.hasEm /\ name' = s.name
  /\ version' = s.version /\ ref' = s.ref /\ coll' = s.coll
  /\ identityMap' = s.identityMap
  /\ originalEntityData' = s.originalEntityData
  /\ identifierMap' = s.identifierMap
  /\ persistStack' = s.persistStack /\ removeStack' = s.removeStack
  /\ orphanRemoveStack' = s.orphanRemoveStack
  /\ changeSets' = s.changeSets /\ collectionUpdates' = s.collectionUpdates
  /\ extraUpdates' = s.extraUpdates
  /\ nextId' = s.nextId /\ driverLog' = s.driverLog

NoHist ==
  [op |-> "none", arg |-> 0, err |-> "none", outcome |-> "none",
   computed |-> << >>, order |-> << >>, ordered |-> << >>, lockRead |-> "", lockCond |-> 0,
   hooks |-> 0, calls |-> << >>, deferred |-> << >>, items |-> << >>, orphans |-> {},
   during |-> {}]

\* ------------------------------------------------------------------ fixtures
\* Object graphs the caller has built or loaded before the first operation.
Chain(e) == IF e < NumEnt THEN e + 1 ELSE 0
Ring(e) == (e % NumEnt) + 1
Books == [i \in 1..(NumEnt - 1) |-> i + 1]
AllEnt == [i \in 1..NumEnt |-> i]

Fixture(sc, keys, loaded, refs, items, dirtyItems, managed) ==
  [scn |-> sc, pk |-> keys, ini |-> loaded, ref |-> refs, items |-> items,
   dirty |-> dirtyItems, managed |-> managed, lazy |-> [e \in Ent |-> FALSE]]

None == [e \in Ent |-> 0]
Own == [e \in Ent |-> e]
Yes == [e \in Ent |-> TRUE]
No == [e \in Ent |-> FALSE]
NoItems == [e \in Ent |-> << >>]

Fixtures ==
  { \* a new Author holding new Books
    Fixture("library", None, Yes, [e \in Ent |-> IF e > 1 THEN 1 ELSE 0],
            [e \in Ent |-> IF e = 1 THEN Books ELSE << >>], No, << >>),
    \* the same graph loaded from the store
    Fixture("library", Own, Yes, [e \in Ent |-> IF e > 1 THEN 1 ELSE 0],
            [e \in Ent |-> IF e = 1 THEN Books ELSE << >>], No, AllEnt),
    \* a loaded Author that received new Books
    Fixture("library", [e \in Ent |-> IF e = 1 THEN 1 ELSE 0], Yes,
            [e \in Ent |-> IF e > 1 THEN 1 ELSE 0],
            [e \in Ent |-> IF e = 1 THEN Books ELSE << >>], No, << 1 >>),
    \* new nodes in a chain 1 -> 2 -> ... -> NumEnt
    Fixture("node", None, Yes, [e \in Ent |-> Chain(e)], NoItems, No, << >>),
    \* new nodes in a ring 1 -> 2 -> ... -> NumEnt -> 1
    Fixture("node", None, Yes, [e \in Ent |-> Ring(e)], NoItems, No, << >>),
    \* loaded nodes; the last instance is a detached copy of the first one
    Fixture("node", [e \in Ent |-> IF e = NumEnt THEN 1 ELSE e], Yes,
            [e \in Ent |-> IF e = 1 THEN 2 ELSE 0], NoItems, No,
            [i \in 1..(NumEnt - 1) |-> i]),
    \* a new node whose owning collection holds the other new nodes, which refer to it
    Fixture("node", None, Yes, [e \in Ent |-> IF e > 1 THEN 1 ELSE 0],
            [e \in Ent |-> IF e = 1 THEN Books ELSE << >>], [e \in Ent |-> e = 1], << >>),
    \* new X -> new Y -> new X -> ...
    Fixture("mutual", None, Yes, [e \in Ent |-> Chain(e)], NoItems, No, << >>),
    \* new X -> new Y -> ... -> loaded last entity
    Fixture("mutual", [e \in Ent |-> IF e = NumEnt THEN e ELSE 0], Yes,
            [e \in Ent |-> Chain(e)], NoItems, No, << NumEnt >>),
    \* loaded chain whose second entity is an unloaded reference
    Fixture("mutual", Own, [e \in Ent |-> e # 2], [e \in Ent |-> IF e = 2 THEN 0 ELSE Chain(e)],
            NoItems, No, AllEnt) }

\* Graphs for the cascade walker.  The items of an uninitialized collection are the
\* entities a load of the collection would bring.
CascadeFixtures ==
  { \* new trees: 1 refers to 2 and holds the others in its collection
    Fixture("tree", None, Yes, [e \in Ent |-> IF e = 1 THEN 2 ELSE 0],
            [e \in Ent |-> IF e = 1 THEN Books ELSE << >>], [e \in Ent |-> e = 1], << >>),
    \* the same graph loaded from the store
    Fixture("tree", Own, Yes, [e \in Ent |-> IF e = 1 THEN 2 ELSE 0],
            [e \in Ent |-> IF e = 1 THEN Books ELSE << >>], No, AllEnt),
    \* a loaded Author whose collection of loaded Books is not initialized
    [Fixture("library", Own, Yes, [e \in Ent |-> IF e > 1 THEN 1 ELSE 0],
             [e \in Ent |-> IF e = 1 THEN Books ELSE << >>], No, AllEnt)
       EXCEPT !.lazy = [e \in Ent |-> e = 1]],
    \* a loaded Author whose initialized collection holds a Book that is an unloaded
    \* reference and new Books
    Fixture("library", [e \in Ent |-> IF e <= 2 THEN e ELSE 0], [e \in Ent |-> e # 2],
            [e \in Ent |-> IF e > 2 THEN 1 ELSE 0],
            [e \in Ent |-> IF e = 1 THEN Books ELSE << >>], No, << 1, 2 >>) }

\* the caller is outside / inside a transaction of its own; calls is the number of
\* operations the caller invokes in the run
EnvPlain == [inTx |-> FALSE, supportsTx |-> TRUE, implicitTx |-> TRUE, calls |-> MaxOps]
EnvInTx == [inTx |-> TRUE, supportsTx |-> TRUE, implicitTx |-> TRUE, calls |-> MaxOps]
\* a caller that only schedules work and never commits
EnvCalls == [inTx |-> FALSE, supportsTx |-> TRUE, implicitTx |-> TRUE, calls |-> MaxCalls]

RECURSIVE mergeAll(_, _, _)
mergeAll(s, list, i) ==
  IF i > Len(list) THEN s ELSE mergeAll(merge(Fresh(s), list[i], TRUE), list, i + 1)

InitialState(f) ==
  mergeAll(
    [sc |-> f.scn, pk |-> f.pk, ini |-> f.ini, hasEm |-> No,
     name |-> [e \in Ent |-> 0],
     version |-> [e \in Ent |-> IF IsVersioned(f.scn, ClassOf(f.scn, e)) /\ f.ini[e] THEN 1 ELSE 0],
     ref |-> f.ref,
     coll |-> [e \in Ent |-> [items |-> f.items[e], initialized |-> ~f.lazy[e], dirty |-> f.dirty[e],
                              snapshot |-> IF f.dirty[e] THEN << >> ELSE f.items[e]]],
     identityMap |-> << >>,
     originalEntityData |-> [e \in Ent |-> NoData],
     identifierMap |-> [e \in Ent |-> NoIdentifier],
     persistStack |-> << >>, removeStack |-> << >>, orphanRemoveStack |-> << >>,
     changeSets |-> << >>, collectionUpdates |-> << >>, extraUpdates |-> << >>,
     nextId |-> FirstInsertId, driverLog |-> << >>, visited |-> {},
     walked |-> << >>],
    f.managed, 1)

InitFrom(fixtures, envs) ==
  \E f \in fixtures, ev \in envs :
    LET s == InitialState(f)
    IN /\ scn = f.scn
       /\ pk = s.pk /\ ini = s.ini /\ hasEm = s.hasEm /\ name = s.name
       /\ version = s.version /\ ref = s.ref /\ coll = s.coll
       /\ identityMap = s.identityMap
       /\ originalEntityData = s.originalEntityData
       /\ identifierMap = s.identifierMap
       /\ persistStack = s.persistStack /\ removeStack = s.removeStack
       /\ orphanRemoveStack = s.orphanRemoveStack
       /\ changeSets = s.changeSets /\ collectionUpdates = s.collectionUpdates
       /\ extraUpdates = s.extraUpdates
       /\ nextId = s.nextId /\ driverLog = s.driverLog
       /\ phase = "idle" /\ csIdx = 1 /\ txOpen = FALSE /\ env = ev
       /\ store = << >>
       /\ hist = NoHist /\ ops = 0 /\ commits = 0

Init == InitFrom(Fixtures, {EnvPlain})

\* ------------------------------------------------------------------ caller operations
CallerOp(opName, e, error) ==
  /\ ops' = ops + 1
  /\ hist' = [hist EXCEPT !.op = opName, !.arg = e, !.err = error, !.lockRead = "",
                           !.lockCond = 0,
                           !.orphans = IF opName = "clear" THEN {} ELSE @]
  /\ UNCHANGED << phase, csIdx, txOpen, env, commits, store >>

CanCall == phase = "idle" /\ ops < env.calls

Persist(e) ==
  /\ CanCall
  /\ Becomes(persist(St, e, FALSE))
  /\ CallerOp("persist", e, "none")

Remove(e) ==
  /\ CanCall
  /\ Becomes(remove(St, e))
  /\ CallerOp("remove", e, "none")

\* merge(entity, visited, mergeData)
Merge(e, visited, mergeData) ==
  /\ CanCall
  /\ Becomes(merge([St EXCEPT !.visited = visited], e, mergeData))
  /\ CallerOp("merge", e, "none")

Clear ==
  /\ CanCall
  /\ Becomes(postCommitCleanup([St EXCEPT !.identityMap = << >>,
                                          !.originalEntityData = [e \in Ent |-> NoData]]))
  /\ CallerOp("clear", 0, "none")

\* the caller assigns a scalar field of an initialized entity
SetName(e) ==
  /\ CanCall
  /\ ini[e]
  /\ Becomes([St EXCEPT !.name[e] = 1 - @])
  /\ CallerOp("setName", e, "none")

\* ------------------------------------------------------------------ collections
\* the entities a caller can pass to the collection of owner: instances of its target type
ItemsFor(owner) ==
  {e \in Ent : ClassOf(scn, e) = ItemsProp(scn, ClassOf(scn, owner)).type}

\* argument lists of add, remove and set
ItemLists(owner) == {<< >>} \cup {<< x >> : x \in ItemsFor(owner)}

\* items of the list that the collection of owner holds
Held(owner, items) == {x \in Ent : Includes(items, x) /\ Includes(coll[owner].items, x)}

\* orphans: entities with a primary key that a remove() took out of an orphan-removal
\* collection of an attached owner and that no add() or set() has received since; the
\* bookkeeping starts again with every commit and every clear
CollectionOp(opName, owner, items, r, orphans) ==
  /\ CanCall
  /\ ItemsProp(scn, ClassOf(scn, owner)).name = "items"
  /\ Becomes(r.s)
  /\ ops' = ops + 1
  /\ hist' = [hist EXCEPT !.op = opName, !.arg = owner, !.err = r.err, !.lockRead = "",
                           !.lockCond = 0, !.items = items,
                           !.orphans = IF r.err = "none" THEN orphans ELSE @]
  /\ UNCHANGED << phase, csIdx, txOpen, env, commits, store >>

CollectionAdd(owner, items) ==
  CollectionOp("add", owner, items, collAdd(St, owner, items),
               hist.orphans \ {x \in Ent : Includes(items, x)})

CollectionRemove(owner, items) ==
  CollectionOp("removeItems", owner, items, collRemove(St, owner, items),
               hist.orphans \cup
                 {x \in Held(owner, items) :
                    /\ pk[x] # 0 /\ hasEm[owner]
                    /\ ItemsProp(scn, ClassOf(scn, owner)).orphanRemoval})

CollectionSet(owner, items) ==
  CollectionOp("set", owner, items, collSet(St, owner, items),
               hist.orphans \ {x \in Ent : Includes(items, x)})

\* ------------------------------------------------------------------ locking
StoredVersions == {1, 2}

\* wrap(entity).init(): the entity is loaded from the store and accepted again by the
\* registry (initialized, fields read, baseline snapshot refreshed)
initEntity(s, e, storedVersion) ==
  [s EXCEPT !.ini[e] = TRUE, !.version[e] = storedVersion,
            !.originalEntityData[e] = [prepareEntity(s, e) EXCEPT !.version = storedVersion]]

\* the comparison that ends lockOptimistic
compareVersion(s, e, expected) ==
  [s |-> s, read |-> "", cond |-> 0,
   err |-> IF s.version[e] # expected THEN "lockFailedVersionMismatch" ELSE "none"]

\* variant: the versions are not compared
lockOptimisticMutant(s, e, expected, storedVersion) ==
  IF ~IsVersioned(s.sc, ClassOf(s.sc, e)) THEN [s |-> s, err |-> "notVersioned", read |-> "", cond |-> 0]
  ELSE [s |-> s, err |-> "none", read |-> "", cond |-> 0]

\* variant: neither the version field nor the passed version is looked at first
lockOptimisticEagerMutant(s, e, expected, storedVersion) ==
  compareVersion(IF ~s.ini[e] THEN initEntity(s, e, storedVersion) ELSE s, e, expected)

\* lockOptimistic: [s, err, read]; expected = 0 stands for "no version passed"
lockOptimistic(s, e, expected, storedVersion) ==
  IF ~IsVersioned(s.sc, ClassOf(s.sc, e)) THEN [s |-> s, err |-> "notVersioned", read |-> "", cond |-> 0]
  ELSE IF expected = 0 THEN [s |-> s, err |-> "none", read |-> "", cond |-> 0]
  ELSE compareVersion(IF ~s.ini[e] THEN initEntity(s, e, storedVersion) ELSE s, e, expected)

\* variant: the read is issued whether or not a transaction is active
lockPessimisticMutant(s, e, inTx, mode) ==
  [s |-> s, err |-> "none", read |-> mode, cond |-> s.pk[e]]

\* lockPessimistic: [s, err, read, cond]; read is the lock mode of the query that was
\* executed and cond the primary key its condition selects (Utils.getPrimaryKeyCond)
lockPessimistic(s, e, inTx, mode) ==
  IF ~inTx THEN [s |-> s, err |-> "transactionRequired", read |-> "", cond |-> 0]
  ELSE [s |-> s, err |-> "none", read |-> mode, cond |-> s.pk[e]]

\* the outcome of lock() as the caller sees it
Locked(e, r) ==
  /\ Becomes(r.s)
  /\ ops' = ops + 1
  /\ hist' = [hist EXCEPT !.op = "lock", !.arg = e, !.err = r.err, !.lockRead = r.read,
                           !.lockCond = r.cond]
  /\ UNCHANGED << phase, csIdx, txOpen, env, commits, store >>

LockModes == {LockNONE, LockOPTIMISTIC, LockPESSIMISTIC_READ, LockPESSIMISTIC_WRITE}

Lock(e, mode, expected, storedVersion) ==
  /\ CanCall
  /\ (mode # LockOPTIMISTIC => expected = 0)
  /\ (ini[e] => storedVersion = 1)
  /\ IF getById(identityMap, ClassOf(scn, e), pk[e]) = 0
     THEN /\ Becomes(St)
          /\ CallerOp("lock", e, "entityNotManaged")
     ELSE IF mode = LockOPTIMISTIC
          THEN Locked(e, lockOptimistic(St, e, expected, storedVersion))
          ELSE Locked(e, lockPessimistic(St, e, env.inTx, mode))

\* ------------------------------------------------------------------ commit()
\* variant: the caller's own transaction is not looked at
runInTransactionMutant(ev) == ev.supportsTx /\ ev.implicitTx

\* const runInTransaction = ...
runInTransaction(ev) == ~ev.inTx /\ ev.supportsTx /\ ev.implicitTx

\* Connection.transactional around persistToDatabase, or persistToDatabase run directly:
\* the writes of the commit become durable unless the callback threw inside the
\* transaction that commit() opened, which is then rolled back
afterWritesMutant(durable, log, ownTx, ok) == durable \o log

afterWrites(durable, log, ownTx, ok) ==
  IF ok \/ ~ownTx THEN durable \o log ELSE durable

\* variant: the collections are synchronized before the extra updates are looked at
AfterStepMutant(s, idx) ==
  IF idx <= Len(s.changeSets) THEN "apply"
  ELSE IF Len(s.collectionUpdates) > 0 THEN "coll"
  ELSE IF Len(s.extraUpdates) > 0 THEN "extra"
  ELSE "end"

AfterStep(s, idx) ==
  IF idx <= Len(s.changeSets) THEN "apply"
  ELSE IF Len(s.extraUpdates) > 0 THEN "extra"
  ELSE IF Len(s.collectionUpdates) > 0 THEN "coll"
  ELSE "end"

\* what one commitChangeSet awaits, in order: runHooks(before<Type>), the driver write,
\* and once that has returned the switch that folds the result back and
\* runHooks(after<Type>)
CallsOf(called, ok) ==
  IF ~called THEN << >>
  ELSE IF ok THEN << "before", "write", "fold", "after" >>
  ELSE << "before", "write" >>

\* the runHooks calls among them
HooksRun(calls) == Cardinality({i \in 1..Len(calls) : calls[i] \in {"before", "after"}})

\* the step that leaves nothing to do runs postCommitCleanup and commit() returns;
\* calls: what the step awaited
Continue(s, p, idx, calls) ==
  IF p = "end"
  THEN /\ Becomes(postCommitCleanup(s))
       /\ phase' = "idle" /\ csIdx' = 1 /\ txOpen' = FALSE
       /\ store' = afterWrites(store, s.driverLog, txOpen, TRUE)
       /\ hist' = [hist EXCEPT !.outcome = "ok", !.hooks = @ + HooksRun(calls),
                                !.calls = calls]
  ELSE /\ Becomes(s)
       /\ phase' = p
       /\ csIdx' = idx
       /\ hist' = [hist EXCEPT !.hooks = @ + HooksRun(calls), !.calls = calls]
       /\ UNCHANGED << txOpen, store >>

\* a driver call threw: the error leaves commit() at once
Abort(s, calls) ==
  /\ Becomes(s)
  /\ phase' = "idle" /\ csIdx' = 1 /\ txOpen' = FALSE
  /\ store' = afterWrites(store, s.driverLog, txOpen, FALSE)
  /\ hist' = [hist EXCEPT !.outcome = "failed", !.hooks = @ + HooksRun(calls),
                           !.calls = calls]

Finish(s, ok, idx, called) ==
  IF ok THEN Continue(s, AfterStep(s, idx), IF idx <= Len(s.changeSets) THEN idx ELSE 1,
                      CallsOf(called, ok))
  ELSE Abort(s, CallsOf(called, ok))

CommitHist(outcome, computed, order, ordered, deferred) ==
  [hist EXCEPT !.op = "commit", !.arg = 0, !.err = "none", !.lockRead = "", !.lockCond = 0,
               !.outcome = outcome, !.computed = computed, !.order = order,
               !.ordered = ordered, !.deferred = deferred, !.calls = << >>,
               !.orphans = {}, !.during = {}]

\* commit() after computeChangeSets, with work to do
CommitOrdered(s, computed) ==
  /\ Becomes(s)
  /\ phase' = AfterStep(s, 1)
  /\ csIdx' = 1
  /\ txOpen' = runInTransaction(env)
  /\ UNCHANGED store
  /\ hist' = CommitHist("running", computed, getCommitOrder(scn, computed), s.changeSets,
                       s.extraUpdates)

\* this.changeSets.length === 0 && this.collectionUpdates.length === 0 && ...
NothingToDo(s) ==
  Len(s.changeSets) = 0 /\ Len(s.collectionUpdates) = 0 /\ Len(s.extraUpdates) = 0

CommitComputedMutant(s) ==
  CommitOrdered([s EXCEPT !.changeSets = reorderChangeSets(scn, @), !.driverLog = << >>],
                s.changeSets)

CommitComputed(s) ==
  IF NothingToDo(s)
  THEN /\ Becomes(postCommitCleanup(s))
       /\ hist' = CommitHist("noop", << >>, << >>, << >>, << >>)
       /\ UNCHANGED << phase, csIdx, txOpen, store >>
  ELSE CommitOrdered([s EXCEPT !.changeSets = reorderChangeSets(scn, @), !.driverLog = << >>],
                     s.changeSets)

\* commit() up to its first driver call
CommitStart ==
  /\ phase = "idle"
  /\ commits < MaxCommits
  /\ commits' = commits + 1
  /\ UNCHANGED << env, ops >>
  /\ CommitComputed(computeChangeSets(St))

\* persistToDatabase, first loop: one change set is committed
CommitChangeSet(ok) ==
  /\ phase = "apply"
  /\ UNCHANGED << env, ops, commits >>
  /\ Finish(commitChangeSet(St, changeSets[csIdx], csIdx, ok), ok, csIdx + 1, TRUE)

ExtraUpdateStep(r, ok) ==
  /\ (ok \/ r.exists)
  /\ Finish(IF r.exists THEN commitChangeSet(r.s, r.cs, 0, ok) ELSE r.s, ok, Len(changeSets) + 1,
            r.exists)

\* persistToDatabase, second loop: one extra update is applied
CommitExtraUpdate(ok) ==
  /\ phase = "extra"
  /\ UNCHANGED << env, ops, commits >>
  /\ ExtraUpdateStep(computeChangeSet(assignExtraUpdate(St), Head(extraUpdates).entity), ok)

\* driver.syncCollection(coll, tx) as the driver sees it
SyncEntry(owner) ==
  [type |-> "sync", entity |-> owner, name |-> ClassOf(scn, owner), fields |-> {"items"},
   ref |-> 0, target |-> 0, pending |-> FALSE]

\* persistToDatabase, third loop: one collection is synchronized
CommitCollection(ok) ==
  /\ phase = "coll"
  /\ UNCHANGED << env, ops, commits >>
  /\ IF ok
     THEN Continue([St EXCEPT !.coll[collectionUpdates[csIdx]] = takeSnapshot(@),
                              !.driverLog = Append(@, SyncEntry(collectionUpdates[csIdx]))],
                   IF csIdx < Len(collectionUpdates) THEN "coll" ELSE "end", csIdx + 1, << >>)
     ELSE Abort(St, << >>)

Next ==
  \/ \E e \in Ent : Persist(e)
  \/ \E e \in Ent : Remove(e)
  \/ \E e \in Ent : Merge(e, {}, TRUE)
  \/ \E e \in Ent : SetName(e)
  \/ Clear
  \/ CommitStart
  \/ \E ok \in BOOLEAN : CommitChangeSet(ok)
  \/ \E ok \in BOOLEAN : CommitExtraUpdate(ok)
  \/ \E ok \in BOOLEAN : CommitCollection(ok)

Spec == Init /\ [][Next]_vars

\* ------------------------------------------------------------------ locking runs
\* loaded graphs, callers inside and outside a transaction
LockFixtures == {f \in Fixtures : Len(f.managed) >= NumEnt - 1}

InitLock == InitFrom(LockFixtures, {EnvPlain, EnvInTx})

NextLock ==
  \/ \E e \in Ent : Persist(e)
  \/ \E e \in Ent : Remove(e)
  \/ \E e \in Ent : SetName(e)
  \/ \E e \in Ent, mode \in LockModes, expected \in 0..2, storedVersion \in StoredVersions :
        Lock(e, mode, expected, storedVersion)
  \/ Clear

SpecLock == InitLock /\ [][NextLock]_vars

\* ------------------------------------------------------------------ scheduling runs
\* longer sequences of caller operations, no commit
InitCalls == InitFrom(Fixtures, {EnvCalls})

NextCalls ==
  \/ \E e \in Ent : Persist(e)
  \/ \E e \in Ent : Remove(e)
  \/ \E e \in Ent : Merge(e, {}, TRUE)
  \/ Clear

SpecCalls == InitCalls /\ [][NextCalls]_vars

\* ------------------------------------------------------------------ cascade runs
\* caller operations on graphs with relations of every cascade setting, with
\* uninitialized collections and with unloaded references inside collections
InitCascade == InitFrom(Fixtures \cup CascadeFixtures, {EnvCalls})

NextCascade ==
  \/ \E e \in Ent : Persist(e)
  \/ \E e \in Ent : Remove(e)
  \/ \E e \in Ent : Merge(e, {}, TRUE)

SpecCascade == InitCascade /\ [][NextCascade]_vars

\* ------------------------------------------------------------------ collection runs
\* Posts and Tags: entity 1 is the Post, the others are Tags; each side holds the other
Tags == [i \in 1..(NumEnt - 1) |-> i + 1]

TagItems == [e \in Ent |-> IF e = 1 THEN Tags ELSE << 1 >>]

CollectionFixtures ==
  {f \in Fixtures : f.scn = "library" \/ f.dirty[1]} \cup
  { \* a loaded Author whose collection has not been loaded
    [Fixture("library", Own, Yes, [e \in Ent |-> IF e > 1 THEN 1 ELSE 0],
             [e \in Ent |-> IF e = 1 THEN Books ELSE << >>], No, AllEnt)
       EXCEPT !.lazy = [e \in Ent |-> e = 1]],
    \* a loaded Post and its loaded Tags, every collection initialized
    Fixture("tags", Own, Yes, None, TagItems, No, AllEnt),
    \* the same with the owning collection of the Post not loaded
    [Fixture("tags", Own, Yes, None, TagItems, No, AllEnt)
       EXCEPT !.lazy = [e \in Ent |-> e = 1]],
    \* a new Post with an empty collection beside loaded Tags
    Fixture("tags", [e \in Ent |-> IF e = 1 THEN 0 ELSE e], Yes, None, NoItems, No, Tags) }

\* a caller outside a transaction that commits after a few collection operations
EnvCollection == [EnvPlain EXCEPT !.calls = TxCalls]

InitCollection == InitFrom(CollectionFixtures, {EnvCollection})

NextCollection ==
  \/ \E owner \in Ent : \E items \in ItemLists(owner) \ {<< >>} : CollectionAdd(owner, items)
  \/ \E owner \in Ent : \E items \in ItemLists(owner) \ {<< >>} : CollectionRemove(owner, items)
  \/ \E owner \in Ent : \E items \in ItemLists(owner) : CollectionSet(owner, items)
  \/ \E e \in Ent : Persist(e)
  \/ \E e \in Ent : Remove(e)
  \/ Clear
  \/ CommitStart
  \/ \E ok \in BOOLEAN : CommitChangeSet(ok)
  \/ \E ok \in BOOLEAN : CommitExtraUpdate(ok)
  \/ \E ok \in BOOLEAN : CommitCollection(ok)

SpecCollection == InitCollection /\ [][NextCollection]_vars

\* ------------------------------------------------------------------ orphan-removal runs
\* longer sequences of collection calls on the Author's orphan-removal collection, with
\* persist() before or after them
InitOrphan == InitFrom({f \in CollectionFixtures : f.scn = "library"}, {EnvCalls})

NextOrphan ==
  \/ \E owner \in Ent : \E items \in ItemLists(owner) \ {<< >>} : CollectionAdd(owner, items)
  \/ \E owner \in Ent : \E items \in ItemLists(owner) \ {<< >>} : CollectionRemove(owner, items)
  \/ \E owner \in Ent : \E items \in ItemLists(owner) : CollectionSet(owner, items)
  \/ \E e \in Ent : Persist(e)

SpecOrphan == InitOrphan /\ [][NextOrphan]_vars

\* ------------------------------------------------------------------ merge runs
\* merge with every argument: a visited list that is empty or already holds the entity,
\* with and without mergeData
InitMerge == InitFrom(Fixtures, {EnvPlain})

NextMerge ==
  \/ \E e \in Ent, mergeData \in BOOLEAN : Merge(e, {}, mergeData)
  \/ \E e \in Ent, mergeData \in BOOLEAN : Merge(e, {e}, mergeData)
  \/ \E e \in Ent : SetName(e)

SpecMerge == InitMerge /\ [][NextMerge]_vars

\* ------------------------------------------------------------------ transaction runs
\* every combination of caller context, platform support and configuration
EnvsTx ==
  {[inTx |-> i, supportsTx |-> p, implicitTx |-> c, calls |-> TxCalls] :
     i \in BOOLEAN, p \in BOOLEAN, c \in BOOLEAN}

InitTx == InitFrom(Fixtures, EnvsTx)

NextTx ==
  \/ \E e \in Ent : Persist(e)
  \/ \E e \in Ent : Remove(e)
  \/ \E e \in Ent : SetName(e)
  \/ CommitStart
  \/ \E ok \in BOOLEAN : CommitChangeSet(ok)
  \/ \E ok \in BOOLEAN : CommitExtraUpdate(ok)
  \/ \E ok \in BOOLEAN : CommitCollection(ok)

SpecTx == InitTx /\ [][NextTx]_vars

\* ------------------------------------------------------------------ calls during a commit
\* runs of a caller that does not wait for commit() to return: while the commit
\* awaits a hook or a driver call the caller calls persist() or commit() again
MaxNested == 1

Suspended == phase \in {"apply", "extra", "coll", "resume"}

\* persist(entity) while a commit is suspended; hist.during keeps the new entities
\* (no primary key yet) registered this way
PersistDuring(e) ==
  /\ Suspended
  /\ ops < env.calls
  /\ Becomes(persist(St, e, FALSE))
  /\ ops' = ops + 1
  /\ hist' = [hist EXCEPT !.during = IF pk[e] = 0 THEN @ \cup {e} ELSE @]
  /\ UNCHANGED << phase, csIdx, txOpen, env, commits, store >>

\* a second commit() up to its first await, on the arrays the first one iterates:
\* s is the state computeChangeSets leaves
SecondCommit(s) ==
  IF NothingToDo(s) THEN postCommitCleanup(s)
  ELSE [s EXCEPT !.changeSets = reorderChangeSets(scn, @)]

\* the first commit's for-of keeps its index into this.changeSets
Interleaved(s) ==
  /\ Becomes(s)
  /\ phase' = IF csIdx <= Len(s.changeSets) THEN "apply" ELSE "resume"

CommitDuring ==
  /\ phase = "apply"
  /\ commits < MaxCommits + MaxNested
  /\ commits' = commits + 1
  /\ Interleaved(SecondCommit(computeChangeSets(St)))
  /\ UNCHANGED << csIdx, txOpen, env, ops, store, hist >>

\* the first commit's for-of finds no element at its index: persistToDatabase
\* goes on with the extra updates and the collections, or returns
CommitResume ==
  /\ phase = "resume"
  /\ UNCHANGED << env, ops, commits >>
  /\ Continue(St, AfterStep(St, Len(changeSets) + 1), 1, << >>)

InitSuspend == InitFrom(Fixtures, {EnvPlain})

NextSuspend ==
  \/ \E e \in Ent : Persist(e)
  \/ \E e \in Ent : SetName(e)
  \/ CommitStart
  \/ \E ok \in BOOLEAN : CommitChangeSet(ok)
  \/ \E ok \in BOOLEAN : CommitExtraUpdate(ok)
  \/ \E ok \in BOOLEAN : CommitCollection(ok)
  \/ \E e \in Ent : PersistDuring(e)
  \/ CommitDuring
  \/ CommitResume

SpecSuspend == InitSuspend /\ [][NextSuspend]_vars

\* ------------------------------------------------------------------ properties
\* positions of the CREATE entries for entity e in a change-set list or in the driver log
CreatesOf(list, e) == {i \in 1..Len(list) : list[i].type = CREATE /\ list[i].entity = e}

\* positions of all entries for entity e
EntriesOf(list, e) == {i \in 1..Len(list) : list[i].entity = e}

\* e is the instance the registry returns for its own type and primary key
Registered(e) == pk[e] # 0 /\ getById(identityMap, ClassOf(scn, e), pk[e]) = e

\* commit() has just returned normally
CommitReturned == phase = "idle" /\ hist.op = "commit" /\ hist.outcome = "ok"

\* the state in which commit() holds the ordered list and has written nothing yet
ListOrdered == phase = "apply" /\ csIdx = 1 /\ Len(driverLog) = 0

C1_Step ==
  /\ commits' = commits + 1 =>
       \A e \in Ent :
          (Includes(persistStack, e) /\ pk[e] = 0 /\ ~originalEntityData[e].has) =>
             Cardinality(CreatesOf(hist'.computed, e)) = 1
  /\ \A e \in Ent : /\ Cardinality(CreatesOf(changeSets', e)) <= 1
                    /\ Cardinality(CreatesOf(driverLog', e)) <= 1
  /\ (hist.outcome = "running" /\ hist'.outcome = "ok") =>
       \A e \in Ent :
          CreatesOf(hist.ordered, e) # {} =>
             /\ Cardinality(CreatesOf(driverLog', e)) = 1
             /\ pk'[e] >= FirstInsertId
             /\ getById(identityMap', ClassOf(scn, e), pk'[e]) = e

\* C1: an entity without primary key and without snapshot that is on the persist stack
\* when commit() starts gets exactly one CREATE change set; no entity ever has two CREATE
\* change sets in the list or two CREATE writes in one commit; when the commit returns,
\* every entity that had a CREATE change set was written once, carries a generated
\* identifier and is the instance registered under it.
C1_OneCreatePerNewEntity == [][C1_Step]_vars

\* a commit returned after creating an entity that was reached through a ring of
\* relations and persisted by the caller more than once
C1_Witness ==
  /\ CommitReturned
  /\ ops = MaxOps
  /\ \E e \in Ent : /\ Cardinality(CreatesOf(driverLog, e)) = 1
                    /\ Registered(e)
                    /\ ref[e] # 0 /\ ref[ref[e]] # 0

\* C2: in the library schema, when a commit that created the Author and every Book has
\* returned, the Author's CREATE was written before each Book's CREATE, each Book write
\* carries the Author's generated identifier in its to-one field, and the registry holds
\* exactly these new identities.
C2_AuthorBeforeBooks ==
  (scn = "library" /\ CommitReturned /\ \A e \in Ent : CreatesOf(driverLog, e) # {}) =>
    /\ \A b \in 2..NumEnt : \A i \in CreatesOf(driverLog, 1), j \in CreatesOf(driverLog, b) :
          /\ i < j
          /\ "ref" \in driverLog[j].fields
          /\ driverLog[j].ref = pk[1]
    /\ pk[1] >= FirstInsertId
    /\ Len(identityMap) = NumEnt
    /\ \A e \in Ent : Registered(e)

C2_Witness ==
  /\ scn = "library" /\ CommitReturned
  /\ \A e \in Ent : CreatesOf(driverLog, e) # {}
  /\ hist.computed # << >>
  /\ Len(identityMap) = NumEnt

RECURSIVE RefReaches(_, _, _)
\* following to-one relations from entity "from" leads to entity "to" within n steps
RefReaches(from, to, n) ==
  IF n = 0 \/ ref[from] = 0 THEN FALSE
  ELSE ref[from] = to \/ RefReaches(ref[from], to, n - 1)

\* A and B are new, A has a required to-one relation to B, B does not depend back on A
RequiredOn(i, j) ==
  /\ changeSets[i].type = CREATE /\ changeSets[j].type = CREATE
  /\ ref[changeSets[i].entity] = changeSets[j].entity
  /\ ~RefProp(scn, changeSets[i].name).nullable
  /\ ~RefReaches(changeSets[j].entity, changeSets[i].entity, NumEnt)

\* C3: for every two new entities A and B where A has a required owning to-one
\* relation to B and B does not depend back on A, the ordered list that commit() applies
\* holds B's CREATE before A's CREATE (A and B of the same type included).
C3_RequiredTargetFirst ==
  ListOrdered => \A i, j \in 1..Len(changeSets) : RequiredOn(i, j) => j < i

\* the entries of the driver log for entity e that write its to-one field with value v
RefWrites(kind, e, v) ==
  {k \in 1..Len(driverLog) : /\ driverLog[k].type = kind /\ driverLog[k].entity = e
                             /\ "ref" \in driverLog[k].fields /\ driverLog[k].ref = v}

\* change set cs of the ordered list is a CREATE whose payload refers to an entity that
\* has a CREATE change set in the same list
RefersToNew(cs) ==
  /\ cs.type = CREATE /\ "ref" \in cs.payload.fields /\ cs.payload.ident # 0
  /\ CreatesOf(hist.ordered, cs.payload.ident) # {}

\* C4: no CREATE is handed to the storage driver with a to-one field whose target still
\* has an unpersisted CREATE change set; a running commit always has a next step; when
\* the commit has returned, every CREATE that referred to another new entity either carried the
\* target's generated identifier or was followed by an UPDATE of that field carrying it,
\* and the live entity refers to its target again.
C4_NoPendingReference ==
  /\ \A k \in 1..Len(driverLog) : driverLog[k].type = CREATE => ~driverLog[k].pending
  /\ phase = "apply" => csIdx \in 1..Len(changeSets)
  /\ phase = "extra" => Len(extraUpdates) > 0
  /\ phase = "coll" => csIdx \in 1..Len(collectionUpdates)
  /\ CommitReturned =>
       \A i \in 1..Len(hist.ordered) :
          RefersToNew(hist.ordered[i]) =>
             /\ pk[hist.ordered[i].payload.ident] >= FirstInsertId
             /\ ref[hist.ordered[i].entity] = hist.ordered[i].payload.ident
             /\ \/ RefWrites(CREATE, hist.ordered[i].entity, pk[hist.ordered[i].payload.ident]) # {}
                \/ \E u \in RefWrites(UPDATE, hist.ordered[i].entity, pk[hist.ordered[i].payload.ident]) :
                      \A c \in CreatesOf(driverLog, hist.ordered[i].entity) :
                         c < u /\ "ref" \notin driverLog[c].fields

\* a ring of new entities was committed: one CREATE went out without its to-one field
\* and an extra update wrote it afterwards
C4_Witness ==
  /\ CommitReturned
  /\ \A e \in Ent : CreatesOf(driverLog, e) # {} /\ ref[e] = Ring(e)
  /\ \E e \in Ent : RefWrites(UPDATE, e, pk[ref[e]]) # {}

RECURSIVE TypeReaches(_, _, _)
\* type "from" depends on type "to" through a chain of at most n owning to-one relations
TypeReaches(from, to, n) ==
  IF n = 0 \/ RefProp(scn, from).reference = SCALAR THEN FALSE
  ELSE RefProp(scn, from).type = to \/ TypeReaches(RefProp(scn, from).type, to, n - 1)

\* position of a type in the commit order computed for the running commit
OrderOf(t) == IndexOf(hist.order, t)

\* C5: in the ordered list, of two CREATE change sets or two UPDATE change sets of
\* different types the one whose type is earlier in the commit order comes first, and of
\* two DELETE change sets of different types the one whose type is later in the commit
\* order comes first; the commit order holds every type of the list once, a type after
\* the type it depends on when that type does not depend back on it.
C5_CommitOrderFollowed ==
  ListOrdered =>
    /\ \A i, j \in 1..Len(changeSets) :
         (i < j /\ changeSets[i].type = changeSets[j].type
                /\ changeSets[i].name # changeSets[j].name) =>
            IF changeSets[i].type = DELETE
            THEN OrderOf(changeSets[i].name) > OrderOf(changeSets[j].name)
            ELSE OrderOf(changeSets[i].name) < OrderOf(changeSets[j].name)
    /\ \A i \in 1..Len(changeSets) : OrderOf(changeSets[i].name) > 0
    /\ \A a, b \in 1..Len(hist.order) : hist.order[a] = hist.order[b] => a = b
    /\ \A a, b \in 1..Len(hist.order) :
         ( /\ RefProp(scn, hist.order[a]).reference # SCALAR
           /\ RefProp(scn, hist.order[a]).type = hist.order[b]
           /\ ~TypeReaches(hist.order[b], hist.order[a], Len(hist.order)) ) => b < a

\* DELETE change sets of two types were computed in commit order and are applied in
\* the reverse order
C5_Witness ==
  /\ ListOrdered
  /\ hist.computed # changeSets
  /\ \E i, j \in 1..Len(changeSets) :
        /\ i < j /\ changeSets[i].type = DELETE /\ changeSets[j].type = DELETE
        /\ OrderOf(changeSets[i].name) > OrderOf(changeSets[j].name)

\* how often change set x occurs in a list
Occurrences(list, x) == Cardinality({k \in 1..Len(list) : list[k] = x})

KindRank(kind) == IndexOf(TypeOrder, kind)

\* C6: the ordered list is a permutation of the computed list; every CREATE is before
\* every UPDATE and every UPDATE before every DELETE; two change sets of the same kind
\* and the same type are in the order they had in the computed list.
C6_StablePermutation ==
  ListOrdered =>
    /\ Len(changeSets) = Len(hist.computed)
    /\ \A k \in 1..Len(changeSets) :
          Occurrences(changeSets, changeSets[k]) = Occurrences(hist.computed, changeSets[k])
    /\ \A i, j \in 1..Len(changeSets) :
          i < j => KindRank(changeSets[i].type) <= KindRank(changeSets[j].type)
    /\ \A i, j \in 1..Len(changeSets) :
          (i < j /\ changeSets[i].type = changeSets[j].type
                 /\ changeSets[i].name = changeSets[j].name) =>
             \E a, b \in 1..Len(hist.computed) :
                /\ a < b
                /\ hist.computed[a] = changeSets[i]
                /\ hist.computed[b] = changeSets[j]

\* the sort moved a change set, and two change sets of one kind and type kept their order
C6_Witness ==
  /\ ListOrdered
  /\ hist.computed # changeSets
  /\ \E i, j \in 1..Len(changeSets) :
        /\ i < j /\ changeSets[i].type = changeSets[j].type
        /\ changeSets[i].name = changeSets[j].name

\* what the claim promises of entity e in the state after remove(e)
Removed(e) ==
  /\ ~Includes(persistStack', e)
  /\ getById(identityMap', ClassOf(scn, e), pk'[e]) = 0
  /\ ~originalEntityData'[e].has
  /\ ~identifierMap'[e].has
  /\ (pk'[e] # 0 => Includes(removeStack', e))

\* C7 as stated: every call remove(e) ends in a state where e is off the persist stack,
\* unknown to getById, without snapshot and placeholder, and on the remove stack if it
\* has a primary key.
C7_Stated == [][\A e \in Ent : Remove(e) => Removed(e)]_vars

\* C7 (amended): the same for every call remove(e) made while e is not on the remove
\* stack; a call made while e is on the remove stack changes nothing.
C7_RemoveUnregisters ==
  [][\A e \in Ent : Remove(e) =>
        IF Includes(removeStack, e)
        THEN UNCHANGED << identityMap, originalEntityData, identifierMap, persistStack,
                          removeStack, orphanRemoveStack >>
        ELSE Removed(e)]_vars

\* remove(e) was called on a registered entity that was on the persist stack
C7_Witness ==
  /\ hist.op = "remove" /\ ops >= 2
  /\ pk[hist.arg] # 0
  /\ Includes(removeStack, hist.arg)
  /\ ~Includes(persistStack, hist.arg)
  /\ Len(persistStack) > 0
  /\ getById(identityMap, ClassOf(scn, hist.arg), pk[hist.arg]) = 0

\* the fields of a registered entity that differ from its baseline snapshot
Pending(e) == diffEntities(originalEntityData[e], prepareEntity(St, e))

\* e is the registered instance, has a snapshot and is not scheduled for removal
Tracked(e) ==
  /\ Registered(e) /\ originalEntityData[e].has /\ ini[e]
  /\ ~Includes(removeStack, e) /\ ~Includes(orphanRemoveStack, e)

\* C8: when commit() starts, a registered entity with snapshot of which exactly one field
\* differs from the snapshot gets exactly one change set, an UPDATE whose payload holds
\* that field only, whether or not persist was called for it; a registered entity
\* whose fields equal its snapshot gets no change set.
C8_MinimalUpdate ==
  [][commits' = commits + 1 =>
       \A e \in Ent :
          Tracked(e) =>
             /\ Cardinality(Pending(e)) = 1 =>
                   /\ Cardinality(EntriesOf(hist'.computed, e)) = 1
                   /\ \A k \in EntriesOf(hist'.computed, e) :
                         /\ hist'.computed[k].type = UPDATE
                         /\ hist'.computed[k].payload.fields = Pending(e)
             /\ Pending(e) = {} => EntriesOf(hist'.computed, e) = {}]_vars

\* a commit computed one UPDATE with the single changed field for an entity nobody
\* persisted, and nothing for an unchanged registered entity
C8_Witness ==
  /\ ListOrdered
  /\ hist.computed = << [type |-> UPDATE, name |-> ClassOf(scn, 2), entity |-> 2,
                         payload |-> [NoPayload EXCEPT !.fields = {"name"}, !.name = 1],
                         persisted |-> FALSE] >>
  /\ Len(identityMap) = NumEnt

\* lock(e, OPTIMISTIC, v) on an entity the registry holds, of a versioned type
OptimisticLock(e, v, stored) ==
  /\ Lock(e, LockOPTIMISTIC, v, stored)
  /\ getById(identityMap, ClassOf(scn, e), pk[e]) # 0
  /\ IsVersioned(scn, ClassOf(scn, e))

\* the version the comparison reads: the one of the loaded entity
LiveVersion(e, stored) == IF ini[e] THEN version[e] ELSE stored

RegistryUnchanged ==
  UNCHANGED << identityMap, persistStack, removeStack, orphanRemoveStack, changeSets,
               identifierMap, collectionUpdates, extraUpdates >>

EntitiesUnchanged ==
  UNCHANGED << originalEntityData, pk, ini, hasEm, name, version, ref, coll >>

\* C9 as stated: a mismatch fails with lock-version-mismatch and leaves the registry,
\* the snapshots, the stacks and the entity unchanged; equal versions give no error.
C9_Stated ==
  [][\A e \in Ent, v \in 1..2, stored \in StoredVersions :
        OptimisticLock(e, v, stored) =>
           IF LiveVersion(e, stored) # v
           THEN hist'.err = "lockFailedVersionMismatch" /\ RegistryUnchanged /\ EntitiesUnchanged
           ELSE hist'.err = "none"]_vars

\* C9 (amended): a mismatch fails with lock-version-mismatch and leaves the registry and
\* the stacks unchanged, and every entity and snapshot other than those of an entity
\* that was not initialized when lock was called: that entity is initialized before the
\* comparison and stays so; equal versions give no error.
C9_OptimisticLockMismatch ==
  [][\A e \in Ent, v \in 1..2, stored \in StoredVersions :
        OptimisticLock(e, v, stored) =>
           IF LiveVersion(e, stored) # v
           THEN /\ hist'.err = "lockFailedVersionMismatch"
                /\ RegistryUnchanged
                /\ ini[e] => EntitiesUnchanged
                /\ ~ini[e] =>
                     /\ ini'[e]
                     /\ \A x \in Ent \ {e} :
                           /\ originalEntityData'[x] = originalEntityData[x]
                           /\ ini'[x] = ini[x] /\ version'[x] = version[x]
                     /\ UNCHANGED << pk, hasEm, name, ref, coll >>
           ELSE hist'.err = "none"]_vars

\* an optimistic lock with a stale version has just failed for a registered, loaded and
\* versioned entity after an earlier operation
C9_Witness ==
  /\ hist.op = "lock" /\ hist.err = "lockFailedVersionMismatch"
  /\ ops = MaxOps
  /\ ini[hist.arg] /\ version[hist.arg] = 1
  /\ getById(identityMap, ClassOf(scn, hist.arg), pk[hist.arg]) = hist.arg

\* C10: when clear() has returned, the registry and all snapshots are empty, getById and
\* tryGetById find no entity under any type and primary key, and the three stacks, the
\* change-set list, the identifier map, the collection updates and the extra updates are
\* empty.
C10_ClearEmptiesAll ==
  (hist.op = "clear") =>
     /\ Len(identityMap) = 0
     /\ \A e \in Ent : ~originalEntityData[e].has /\ ~identifierMap[e].has
     /\ \A e \in Ent : /\ getById(identityMap, ClassOf(scn, e), pk[e]) = 0
                       /\ tryGetById(identityMap, ClassOf(scn, e), pk[e]) = 0
     /\ Len(persistStack) = 0 /\ Len(removeStack) = 0 /\ Len(orphanRemoveStack) = 0
     /\ Len(changeSets) = 0 /\ Len(collectionUpdates) = 0 /\ Len(extraUpdates) = 0

\* clear() was called after a commit that failed and left work behind
C10_Witness ==
  /\ hist.op = "clear"
  /\ hist.outcome = "failed"
  /\ \E e \in Ent : pk[e] >= FirstInsertId /\ hasEm[e]

\* commit() has just ended, by returning or by throwing
CommitEnded ==
  phase = "idle" /\ hist.op = "commit" /\ hist.outcome \in {"ok", "noop", "failed"}

\* the per-commit working state of the unit of work is empty
WorkEmpty ==
  /\ Len(persistStack) = 0 /\ Len(removeStack) = 0 /\ Len(orphanRemoveStack) = 0
  /\ Len(changeSets) = 0 /\ Len(collectionUpdates) = 0 /\ Len(extraUpdates) = 0
  /\ \A e \in Ent : ~identifierMap[e].has

\* C11: whenever commit() has ended, by returning or by throwing after a failed driver
\* call, the three stacks, the change-set list, the identifier map, the collection
\* updates and the extra updates are empty.
C11_CleanAfterCommit == CommitEnded => WorkEmpty

\* a storage-driver call of the running commit() throws in this step
DriverCallFails ==
  \/ CommitChangeSet(FALSE)
  \/ CommitExtraUpdate(FALSE)
  \/ CommitCollection(FALSE)

\* the step is a driver call of commit(), or commit()'s first part
CommitStep == phase # "idle" \/ commits' # commits

C12_Step ==
  /\ DriverCallFails =>
       /\ phase' = "idle" /\ hist'.op = "commit" /\ hist'.outcome = "failed"
       /\ driverLog' = driverLog
       /\ store' = IF txOpen THEN store ELSE store \o driverLog
  /\ (hist.outcome = "failed" /\ ~CommitStep) => (driverLog' = driverLog /\ store' = store)

\* C12: a failing driver call ends commit() at once with the error (no later change set,
\* extra update or collection synchronization is attempted and the write is not retried);
\* the writes made before it are rolled back when commit() opened the transaction itself
\* and stay applied when it did not.
C12_FailureStopsCommit == [][C12_Step]_vars

\* a commit that opened its own transaction failed after at least one write: nothing is
\* durable
C12_Witness ==
  /\ CommitEnded /\ hist.outcome = "failed"
  /\ runInTransaction(env) /\ Len(driverLog) > 0 /\ Len(store) = 0

\* this step is the first part of a commit() that finds nothing to do
CommitFindsNothing ==
  phase = "idle" /\ commits' # commits /\ NothingToDo(computeChangeSets(St))

\* C13: a commit() whose computeChangeSets yields no change set, with no collection update
\* and no extra update, opens no transaction, makes no driver call, runs no hook, and
\* leaves the stacks and the identifier map empty.
C13_NoopCommit ==
  [][CommitFindsNothing =>
       /\ phase' = "idle" /\ txOpen' = FALSE
       /\ driverLog' = driverLog /\ store' = store
       /\ hist'.hooks = hist.hooks
       /\ WorkEmpty']_vars

\* a commit() with nothing to do has returned after a caller operation on a loaded graph
C13_Witness ==
  /\ CommitEnded /\ hist.outcome = "noop" /\ ops > 0
  /\ \E e \in Ent : Registered(e)

\* C14: while a commit() with work to do is writing, a transaction opened by that commit
\* exists if and only if the caller was not inside a transaction, the platform supports
\* transactions and implicit transactions are enabled; otherwise the writes go to the
\* caller's context and no transaction is opened.  Outside commit() none is open.
C14_OwnTransactionIff ==
  IF phase = "idle" THEN ~txOpen
  ELSE txOpen <=> (~env.inTx /\ env.supportsTx /\ env.implicitTx)

\* a commit() called inside the caller's transaction has written without opening one
C14_Witness ==
  /\ phase # "idle" /\ Len(driverLog) > 0
  /\ env.inTx /\ env.supportsTx /\ env.implicitTx /\ ~txOpen

\* lock(e, mode, v) is called in this step
LockCalled(e) ==
  \E mode \in LockModes, v \in 0..2, stored \in StoredVersions : Lock(e, mode, v, stored)

\* C15: lock() of an entity that is not itself the instance registered under its type and
\* primary key fails with entity-not-managed and reads and changes nothing; this covers an
\* instance whose identity is registered for a different instance.
C15_EntityNotManaged ==
  [][\A e \in Ent :
        (LockCalled(e) /\ ~Registered(e)) =>
           /\ hist'.err = "entityNotManaged" /\ hist'.lockRead = ""
           /\ RegistryUnchanged /\ EntitiesUnchanged]_vars

\* lock(e, OPTIMISTIC, v) is called in this step; v = 0: no version is passed
OptimisticLockCalled(e, v) ==
  \E stored \in StoredVersions : Lock(e, LockOPTIMISTIC, v, stored)

\* C16: for a managed entity, an optimistic lock fails with not-versioned when the type
\* declares no version field; on a versioned type with no version passed it returns
\* without error, without initializing the entity, without a read and without any change
\* of state.
C16_OptimisticPreconditions ==
  [][\A e \in Ent, v \in 0..2 :
        (Registered(e) /\ OptimisticLockCalled(e, v)) =>
           IF ~IsVersioned(scn, ClassOf(scn, e)) THEN hist'.err = "notVersioned"
           ELSE v = 0 =>
                  /\ hist'.err = "none" /\ hist'.lockRead = ""
                  /\ RegistryUnchanged /\ EntitiesUnchanged]_vars

\* an optimistic lock without a version has returned for a managed entity of a versioned
\* type that is still not initialized
C16_Witness ==
  /\ hist.op = "lock" /\ hist.err = "none" /\ hist.lockRead = ""
  /\ hist.arg # 0 /\ Registered(hist.arg)
  /\ IsVersioned(scn, ClassOf(scn, hist.arg)) /\ ~ini[hist.arg]

\* lock(e, mode) is called in this step with a pessimistic mode
PessimisticLockCalled(e, mode) ==
  \E stored \in StoredVersions : Lock(e, mode, 0, stored)

\* C17: a pessimistic lock of a managed entity outside a transaction fails with
\* transaction-required and issues no read; inside a transaction it issues the read with
\* the lock mode, selected by the entity's primary key, and returns without error.
C17_PessimisticLock ==
  [][\A e \in Ent, mode \in {LockPESSIMISTIC_READ, LockPESSIMISTIC_WRITE} :
        (Registered(e) /\ PessimisticLockCalled(e, mode)) =>
           IF env.inTx
           THEN hist'.err = "none" /\ hist'.lockRead = mode /\ hist'.lockCond = pk[e]
           ELSE hist'.err = "transactionRequired" /\ hist'.lockRead = ""
                /\ hist'.lockCond = 0]_vars

\* a PESSIMISTIC_WRITE lock of a managed entity has returned inside a transaction
C17_Witness ==
  /\ hist.op = "lock" /\ hist.err = "none" /\ env.inTx
  /\ hist.lockRead = LockPESSIMISTIC_WRITE /\ hist.lockCond = pk[hist.arg]
  /\ Registered(hist.arg)

\* merge(e, ...) is called in this step, with any visited list and either mergeData
MergeCalled(e) ==
  \E mergeData \in BOOLEAN : Merge(e, {}, mergeData) \/ Merge(e, {e}, mergeData)

\* no identity has two entries in the registry
OneEntryPerIdentity(im) ==
  \A i, j \in 1..Len(im) : (im[i].type = im[j].type /\ im[i].id = im[j].id) => i = j

\* C18: merge of an entity with a primary key makes getById(type, pk) return that
\* instance, whichever instance was registered under the identity before, with one entry
\* per identity; merge of an entity without a primary key leaves the registry and every
\* snapshot unchanged and reaches no related entity.
C18_MergeRegisters ==
  [][\A e \in Ent :
        MergeCalled(e) =>
           IF pk[e] # 0
           THEN /\ getById(identityMap', ClassOf(scn, e), pk[e]) = e
                /\ OneEntryPerIdentity(identityMap')
           ELSE /\ UNCHANGED << identityMap, originalEntityData >>
                /\ \A x \in Ent \ {e} : hasEm'[x] = hasEm[x]]_vars

\* merge has put an instance in the place of another one that was loaded under the same
\* identity
C18_Witness ==
  /\ hist.op = "merge" /\ hist.arg # 0 /\ Registered(hist.arg)
  /\ \E x \in Ent \ {hist.arg} :
        /\ pk[x] = pk[hist.arg] /\ ClassOf(scn, x) = ClassOf(scn, hist.arg)
        /\ originalEntityData[x] # NoData

\* merge(e, visited, false) is called in this step
MergeWithoutData(e) == Merge(e, {}, FALSE) \/ Merge(e, {e}, FALSE)

\* C19: merge with mergeData = false registers the entity and leaves the entity's
\* baseline snapshot, or its absence, exactly as it was.
C19_NoSnapshotWithoutMergeData ==
  [][\A e \in Ent :
        MergeWithoutData(e) =>
           /\ originalEntityData'[e] = originalEntityData[e]
           /\ pk[e] # 0 => getById(identityMap', ClassOf(scn, e), pk[e]) = e]_vars

\* no DELETE change set for e in the list computeChangeSets leaves in s
NoDeleteFor(s, e) ==
  \A i \in 1..Len(s.changeSets) :
     ~(s.changeSets[i].type = DELETE /\ s.changeSets[i].entity = e)

\* persist(e) was the last call and a commit() would start from this state
PersistedLast(e) == phase = "idle" /\ hist.op = "persist" /\ hist.arg = e

NoneLockCalled(e) == \E stored \in StoredVersions : Lock(e, LockNONE, 0, stored)

\* C30: lock(e, NONE) of a managed entity outside a transaction returns without a
\* transaction-required error and issues no locking read.
C30_NoneNeedsNoTransaction ==
  [][\A e \in Ent :
        (Registered(e) /\ NoneLockCalled(e) /\ ~env.inTx) =>
           hist'.err = "none" /\ hist'.lockRead = ""]_vars

\* no entity occurs twice in a walk log
WalkedOnce(s) == \A i, j \in 1..Len(s.walked) : s.walked[i] = s.walked[j] => i = j

\* C23: from every state, a top-level persist, remove or merge of any entity ends, on
\* cyclic graphs too, and walks the relations of each entity it reaches at most once.
C23_CascadeOnce ==
  phase = "idle" =>
    \A e \in Ent :
       /\ WalkedOnce(persist(St, e, FALSE))
       /\ WalkedOnce(remove(St, e))
       /\ WalkedOnce(merge(St, e, TRUE))

\* persist has run on a graph in which every entity refers to another one, so that the
\* graph has a cycle, and has put each entity on the persist stack once
C23_Witness ==
  /\ hist.op = "persist" /\ ops = 1
  /\ \A x \in Ent : ref[x] # 0 /\ ref[x] # x
  /\ Len(persistStack) = NumEnt /\ \A x \in Ent : Includes(persistStack, x)

\* the relation lets a cascade of the given kind through
Eligible(prop, type) ==
  \/ type \in prop.cascade
  \/ CascadeALL \in prop.cascade
  \/ type = CascadeREMOVE /\ prop.orphanRemoval

\* the entities the relation prop of x points to
TargetsOf(x, prop) ==
  IF prop.name = "ref" THEN (IF ref[x] # 0 THEN {ref[x]} ELSE {})
  ELSE {coll[x].items[i] : i \in 1..Len(coll[x].items)}

\* the entities the relations of x point to; onlyEligible: through eligible relations
RelatedTo(x, type, onlyEligible) ==
  UNION {IF prop.reference = SCALAR \/ (onlyEligible /\ ~Eligible(prop, type)) THEN {}
         ELSE TargetsOf(x, prop) :
           prop \in {Metadata(scn)[ClassOf(scn, x)].properties[i] :
                       i \in 1..Len(Metadata(scn)[ClassOf(scn, x)].properties)}}

RECURSIVE ReachSet(_, _, _, _)
\* the entities reached from the set S in at most n steps
ReachSet(S, type, onlyEligible, n) ==
  IF n = 0 THEN S
  ELSE ReachSet(S \cup UNION {RelatedTo(x, type, onlyEligible) : x \in S}, type,
                onlyEligible, n - 1)

\* the top-level operation of the given kind is called on e in this step
Called(e, type) ==
  CASE type = CascadePERSIST -> Persist(e)
    [] type = CascadeMERGE   -> Merge(e, {}, TRUE)
    [] type = CascadeREMOVE  -> Remove(e)

\* x is the instance the registry im returns for its type and primary key
RegisteredIn(im, x) == pk[x] # 0 /\ getById(im, ClassOf(scn, x), pk[x]) = x

\* the step leaves x where it was: stacks, registry entry, snapshot
Untouched(x) ==
  /\ Includes(persistStack', x) = Includes(persistStack, x)
  /\ Includes(removeStack', x) = Includes(removeStack, x)
  /\ RegisteredIn(identityMap', x) = RegisteredIn(identityMap, x)
  /\ originalEntityData'[x] = originalEntityData[x]

\* C24: a top-level persist, remove or merge of e leaves alone every related entity that
\* is reachable from e only through relations whose cascade set holds neither the
\* operation nor 'all' and that, for remove, do not declare orphan removal: it is not put
\* on or taken off a stack, and its registry entry and snapshot stay as they are.
C24_CascadeOnlyThroughEligible ==
  [][\A e \in Ent, type \in {CascadePERSIST, CascadeMERGE, CascadeREMOVE} :
        Called(e, type) =>
           \A x \in ReachSet({e}, type, FALSE, NumEnt) \ ReachSet({e}, type, TRUE, NumEnt) :
              Untouched(x)]_vars

\* persist of the first tree has reached the tree it refers to (cascade all) and not the
\* trees of its collection (no cascade)
C24_Witness ==
  /\ scn = "tree" /\ hist.op = "persist" /\ hist.arg = 1 /\ ops = 1
  /\ ref[1] # 0 /\ Includes(persistStack, ref[1])
  /\ \E i \in 1..Len(coll[1].items) :
        coll[1].items[i] # ref[1] /\ ~Includes(persistStack, coll[1].items[i])

\* the operation of the given kind, called on e, gets as far as its cascade
Cascades(e, type) ==
  /\ Called(e, type)
  /\ CASE type = CascadePERSIST -> ~Includes(persistStack, e)
       [] type = CascadeMERGE   -> pk[e] # 0
       [] type = CascadeREMOVE  -> ~Includes(removeStack, e)

\* e has a collection relation that lets the operation through
HasEligibleCollection(e, type) ==
  /\ ItemsProp(scn, ClassOf(scn, e)).reference \in {ONE_TO_MANY, MANY_TO_MANY}
  /\ Eligible(ItemsProp(scn, ClassOf(scn, e)), type)

\* after the step x is where the operation puts it
AppliedTo(x, type) ==
  CASE type = CascadePERSIST -> Includes(persistStack', x)
    [] type = CascadeMERGE   -> pk[x] # 0 => RegisteredIn(identityMap', x)
    [] type = CascadeREMOVE  -> pk[x] # 0 => Includes(removeStack', x)

\* the entities reached from e through its to-one relation
ReachedByRef(e, type) ==
  ReachSet(TargetsOf(e, RefProp(scn, ClassOf(scn, e))), type, TRUE, NumEnt)

\* C25: a cascade through an eligible collection relation applies the operation to every
\* initialized item of an initialized collection, whatever the other items are; an
\* uninitialized collection stays uninitialized under persist and remove and its items
\* are left alone.
C25_CascadeIntoCollections ==
  [][\A e \in Ent, type \in {CascadePERSIST, CascadeMERGE, CascadeREMOVE} :
        (Cascades(e, type) /\ HasEligibleCollection(e, type)) =>
           IF coll[e].initialized
           THEN \A x \in TargetsOf(e, ItemsProp(scn, ClassOf(scn, e))) :
                   ini[x] => AppliedTo(x, type)
           ELSE type # CascadeMERGE =>
                  /\ ~coll'[e].initialized
                  /\ \A x \in TargetsOf(e, ItemsProp(scn, ClassOf(scn, e)))
                               \ ReachedByRef(e, type) : Untouched(x)]_vars

\* positions of the extra updates that defer a collection
DeferredCollections(list) == {i \in 1..Len(list) : list[i].prop = "items"}

\* the first part of a commit() with work to do runs in this step
CommitDiscovers == phase = "idle" /\ commits' # commits /\ phase' # "idle"

\* C27: every collection that discovery defers is queued as an extra update holding the
\* original collection while the entity's live relation becomes an empty collection, and
\* when the commit has returned normally the relation holds the original items again.
C27_DeferredCollectionRestored ==
  /\ [][CommitDiscovers =>
          \A i \in DeferredCollections(extraUpdates') :
             i > Len(extraUpdates) =>
                /\ extraUpdates'[i].coll = coll[extraUpdates'[i].entity]
                /\ Len(coll'[extraUpdates'[i].entity].items) = 0]_vars
  /\ [](CommitReturned =>
          \A i \in DeferredCollections(hist.deferred) :
             coll[hist.deferred[i].entity].items = hist.deferred[i].coll.items)

\* a commit that deferred a collection with items has returned normally
C27_Witness ==
  /\ CommitReturned
  /\ \E i \in DeferredCollections(hist.deferred) : Len(hist.deferred[i].coll.items) > 0

\* the first n writes of the commit are those of the first n change sets of the ordered
\* list, in order
ListWritten(n) ==
  /\ Len(driverLog) >= n
  /\ \A i \in 1..n : /\ driverLog[i].type = hist.ordered[i].type
                     /\ driverLog[i].entity = hist.ordered[i].entity

\* no collection has been synchronized by the running commit
NoSyncYet == \A k \in 1..Len(driverLog) : driverLog[k].type # "sync"

\* the order of the phases as the states of a running commit show it
PhasesOrdered ==
  /\ phase = "apply" => /\ Len(driverLog) = csIdx - 1 /\ ListWritten(csIdx - 1)
                        /\ NoSyncYet
  /\ phase = "extra" => ListWritten(Len(hist.ordered)) /\ NoSyncYet
  /\ phase = "coll" => ListWritten(Len(hist.ordered)) /\ Len(extraUpdates) = 0

\* the step applies the first entry of the extra-update queue
ExtraUpdateApplied == phase = "extra" /\ Len(extraUpdates') < Len(extraUpdates)

\* the step synchronizes a collection
CollectionSynced == phase = "coll" /\ Len(driverLog') > Len(driverLog)

\* C28: within a commit every change set of the ordered list is written before the first
\* extra update is applied; the extra-update queue is empty, each entry having been
\* assigned to its live entity, before the first collection is synchronized; and the
\* synchronization of a collection leaves it with dirty flag false and a snapshot equal
\* to its items.
C28_PhasesInOrder ==
  /\ []PhasesOrdered
  /\ [][ExtraUpdateApplied =>
          IF Head(extraUpdates).prop = "ref"
          THEN ref'[Head(extraUpdates).entity] = Head(extraUpdates).ent
          ELSE coll'[Head(extraUpdates).entity].items = Head(extraUpdates).coll.items]_vars
  /\ [][CollectionSynced =>
          /\ ~coll'[collectionUpdates[csIdx]].dirty
          /\ coll'[collectionUpdates[csIdx]].snapshot = coll'[collectionUpdates[csIdx]].items
          /\ driverLog'[Len(driverLog')].entity = collectionUpdates[csIdx]]_vars

\* a collection with items has been synchronized after change sets and an extra update
C28_Witness ==
  /\ phase = "idle" /\ hist.op = "commit" /\ Len(hist.ordered) > 0
  /\ Len(driverLog) > Len(hist.ordered) + 1
  /\ driverLog[Len(driverLog)].type = "sync"
  /\ Len(coll[driverLog[Len(driverLog)].entity].items) > 0

\* the step is one commitChangeSet call of the first or the second loop
ChangeSetStep == phase \in {"apply", "extra"}

\* the step hands one change set to the driver and the driver call returns
ChangeSetWritten == ChangeSetStep /\ Len(driverLog') = Len(driverLog) + 1

\* Utils.prepareEntity of the entity as the step leaves it
LiveAfter(e) ==
  [has |-> TRUE, name |-> name'[e], version |-> version'[e],
   ref |-> IF ref'[e] # 0 THEN pk'[ref'[e]] ELSE 0]

\* what the registry holds for the entity of the written change set once its fold-back
\* has run
FoldedBack(w) ==
  IF w.type = DELETE
  THEN /\ \A i \in 1..Len(identityMap') : identityMap'[i].entity # w.entity
       /\ getById(identityMap', ClassOf(scn, w.entity), pk'[w.entity]) = 0
       /\ originalEntityData'[w.entity] = NoData
       /\ identifierMap'[w.entity] = NoIdentifier
  ELSE /\ pk'[w.entity] # 0
       /\ getById(identityMap', ClassOf(scn, w.entity), pk'[w.entity]) = w.entity
       /\ originalEntityData'[w.entity] = LiveAfter(w.entity)

\* C29: for each change set the before-hook, the driver write, the fold-back and the
\* after-hook run in this order, one change set per step, so a write never starts before
\* the after-hook of the previous change set; a driver call that throws ends the commit
\* after the before-hook; after the fold-back of a CREATE or UPDATE the entity is
\* registered with a snapshot equal to its live state, after that of a DELETE it has no
\* registry entry, snapshot or placeholder.
C29_ChangeSetSequence ==
  [][ChangeSetStep =>
       /\ Len(driverLog') <= Len(driverLog) + 1
       /\ hist'.calls \in {<< >>, << "before", "write" >>,
                           << "before", "write", "fold", "after" >>}
       /\ ChangeSetWritten <=> hist'.calls = << "before", "write", "fold", "after" >>
       /\ ChangeSetWritten => hist'.hooks = hist.hooks + 2
       /\ hist'.calls = << "before", "write" >> =>
            /\ hist'.outcome = "failed" /\ phase' = "idle"
            /\ hist'.hooks = hist.hooks + 1
            /\ identityMap' = identityMap /\ originalEntityData' = originalEntityData
       /\ (ChangeSetWritten /\ phase = "apply") =>
            /\ driverLog'[Len(driverLog')].entity = changeSets[csIdx].entity
            /\ driverLog'[Len(driverLog')].type = changeSets[csIdx].type
       /\ ChangeSetWritten => FoldedBack(driverLog'[Len(driverLog')])]_vars

\* a commit has written a CREATE whose entity is now registered under its new key
C29_Witness ==
  /\ hist.op = "commit" /\ Len(driverLog) > 0
  /\ hist.calls = << "before", "write", "fold", "after" >>
  /\ driverLog[Len(driverLog)].type = CREATE
  /\ Registered(driverLog[Len(driverLog)].entity)
  /\ originalEntityData[driverLog[Len(driverLog)].entity].has

\* positions of the DELETE entries for entity e in a change-set list
DeletesOf(list, e) == {i \in 1..Len(list) : list[i].type = DELETE /\ list[i].entity = e}

\* the step is the call of commit()
CommitCalled == phase = "idle" /\ commits' = commits + 1

\* the step is a remove() on the initialized orphan-removal collection of an attached owner
OrphanRemoved(x) ==
  /\ hist'.op = "removeItems" /\ ops' = ops + 1 /\ hist'.err = "none"
  /\ ItemsProp(scn, ClassOf(scn, hist'.arg)).orphanRemoval
  /\ hasEm[hist'.arg] /\ coll[hist'.arg].initialized
  /\ Includes(hist'.items, x) /\ Includes(coll[hist'.arg].items, x)

\* C21: an entity with a primary key that remove() took out of an initialized
\* orphan-removal collection of an attached owner is scheduled by that call, and when no
\* add() or set() has received it since, the next commit computes exactly one DELETE
\* change set for it, whether or not remove(entity) was called (work discarded by clear()
\* is not pending any more).
C21_OrphanRemoval ==
  /\ [][\A x \in Ent : OrphanRemoved(x) =>
          /\ ~Includes(coll'[hist'.arg].items, x)
          /\ Includes(orphanRemoveStack', x)
          /\ pk[x] # 0 => x \in hist'.orphans]_vars
  /\ [][CommitCalled =>
          \A x \in hist.orphans : Cardinality(DeletesOf(hist'.computed, x)) = 1]_vars

\* a commit has computed the DELETE of a Book that was only taken out of its Author's
\* collection
C21_Witness ==
  /\ scn = "library" /\ hist.op = "commit" /\ ops = 1
  /\ \E x \in Ent : /\ DeletesOf(hist.computed, x) # {}
                    /\ ~Includes(coll[1].items, x) /\ ref[x] = 1 /\ pk[x] # 0

\* the step is an add(), remove() or set() on the initialized inverse side of a
\* many-to-many relation, with an item whose owning-side collection is initialized
InverseModified(owner) ==
  /\ hist'.op \in {"add", "removeItems", "set"} /\ ops' = ops + 1 /\ hist'.arg = owner
  /\ ItemsProp(scn, ClassOf(scn, owner)).reference = MANY_TO_MANY
  /\ ItemsProp(scn, ClassOf(scn, owner)).mappedBy # ""
  /\ coll[owner].initialized
  /\ \E i \in 1..Len(hist'.items) : coll[hist'.items[i]].initialized

\* C22: add, remove or set on the inverse side of a many-to-many collection fails with
\* inverse-collection-modification when the owning-side collection of an item is
\* initialized, and the failed call leaves the items and the dirty flag of the collection
\* as they were.
C22_InverseModificationFails ==
  [][\A owner \in Ent : InverseModified(owner) =>
       /\ hist'.err = "cannotModifyInverseCollection"
       /\ coll'[owner].items = coll[owner].items
       /\ coll'[owner].dirty = coll[owner].dirty]_vars

\* what a state s left by computeChangeSets holds for the DELETE change sets, orphans
\* being the orphan-removal stack the computation started with
DeletesComputed(s, orphans) ==
  /\ Len(s.persistStack) = 0
  /\ \A i \in 1..Len(orphans) : s.pk[orphans[i]] # 0 => Includes(s.removeStack, orphans[i])
  /\ \A e \in Ent :
       IF Includes(s.removeStack, e)
       THEN /\ Cardinality(DeletesOf(s.changeSets, e)) = 1
            /\ \A i \in DeletesOf(s.changeSets, e) : s.changeSets[i].payload = NoPayload
       ELSE DeletesOf(s.changeSets, e) = {}

NoDuplicates(list) == \A i, j \in 1..Len(list) : i # j => list[i] # list[j]

\* the stacks of a state s are disjoint, free of duplicates, and the remove stack holds
\* only entities with a primary key
StacksConsistent(s) ==
  /\ \A e \in Ent : ~(Includes(s.persistStack, e) /\ Includes(s.removeStack, e))
  /\ NoDuplicates(s.persistStack) /\ NoDuplicates(s.removeStack)
  /\ \A i \in 1..Len(s.removeStack) : s.pk[s.removeStack[i]] # 0

\* C31: in every reachable state, and in the state computeChangeSets would leave, no
\* entity is on the persist stack and on the remove stack at once, neither stack holds an
\* entity twice, and every entity on the remove stack has a primary key.
C31_StacksConsistent ==
  /\ StacksConsistent(St)
  /\ phase = "idle" => StacksConsistent(computeChangeSets(St))

\* a removal that follows a persist leaves both stacks occupied
C31_Witness ==
  /\ hist.op = "remove" /\ Len(persistStack) > 0 /\ Len(removeStack) > 0

\* positions of the CREATE and UPDATE entries for entity e in a change-set list
WritesOf(list, e) == {i \in 1..Len(list) : list[i].type \in {CREATE, UPDATE} /\ list[i].entity = e}

\* no entity of the list is both deleted and written
DeleteExcludesWrite(list) ==
  \A e \in Ent : DeletesOf(list, e) = {} \/ WritesOf(list, e) = {}

\* C32: in every change-set list that computeChangeSets produces, no entity has both a
\* DELETE change set and a CREATE or UPDATE change set.
C32_DeleteExcludesWrite ==
  phase = "idle" => DeleteExcludesWrite(computeChangeSets(St).changeSets)

\* the step is an add() or set() that returns, with x among its items, on a collection
\* whose owner is attached
OrphanCancelled(x) ==
  /\ hist'.op \in {"add", "set"} /\ ops' = ops + 1 /\ hist'.err = "none"
  /\ hasEm[hist'.arg] /\ Includes(hist'.items, x)

\* C33: after add() or set() has passed x to cancelOrphanRemoval, x does not occur on the
\* orphan-removal stack, however often it had been scheduled; and an entity that is not
\* explicitly removed and that add() or set() received after its last removal from a
\* collection gets no DELETE change set from computeChangeSets.
C33_CancelOrphanRemoval ==
  /\ [][\A x \in Ent : OrphanCancelled(x) => ~Includes(orphanRemoveStack', x)]_vars
  /\ [](\A x \in Ent :
          (/\ phase = "idle" /\ hist.op \in {"add", "set"} /\ hist.err = "none"
           /\ hasEm[hist.arg] /\ Includes(hist.items, x) /\ ~Includes(removeStack, x))
          => DeletesOf(computeChangeSets(St).changeSets, x) = {})

\* the step is a remove(e) that runs past its early return
RemoveRan(e) == hist'.op = "remove" /\ hist'.arg = e /\ ops' = ops + 1 /\ ~Includes(removeStack, e)

\* another instance is registered under the type and primary key of e
TwinRegistered(e) ==
  /\ pk[e] # 0
  /\ getById(identityMap, ClassOf(scn, e), pk[e]) \notin {0, e}

\* C34: remove(entity), through unsetIdentity(entity), removes a registry entry only when
\* the registered instance is that very entity: when a different instance is registered
\* under the same type and primary key, the entry stays and getById still returns it.
C34_UnsetIdentityOwnEntry ==
  [][\A e \in Ent : (RemoveRan(e) /\ TwinRegistered(e)) =>
       getById(identityMap', ClassOf(scn, e), pk[e])
         = getById(identityMap, ClassOf(scn, e), pk[e])]_vars

\* the last operation was a commit() that a driver call made fail
CommitFailed == phase = "idle" /\ hist.op = "commit" /\ hist.outcome = "failed"

\* the write of change set c is in the store
Durable(c) ==
  \E k \in 1..Len(store) : store[k].type = c.type /\ store[k].entity = c.entity

\* every change set of the failed commit whose write is not durable is found again in
\* the list: a CREATE or UPDATE for a written entity, a DELETE for a removed one
StillPending(list) ==
  \A i \in 1..Len(hist.ordered) :
     ~Durable(hist.ordered[i]) =>
        IF hist.ordered[i].type = DELETE
        THEN DeletesOf(list, hist.ordered[i].entity) # {}
        ELSE WritesOf(list, hist.ordered[i].entity) # {}

\* C35: after a commit() that failed in a driver call, a following commit() with no
\* mutation in between computes again a CREATE or UPDATE change set for each new or
\* modified entity whose write did not take effect and a DELETE for each removed entity
\* that was not deleted.
C35_PendingAfterFailure ==
  CommitFailed => StillPending(computeChangeSets(St).changeSets)

\* the failed commit ran in a transaction it had opened itself: its writes are rolled back
RolledBack == CommitFailed /\ runInTransaction(env)

\* C36: after a commit() that failed inside its own transaction, no entity whose CREATE
\* was rolled back is in the identity registry, and no entity whose DELETE was rolled
\* back has lost its registry entry.
C36_RegistryAgreesWithStore ==
  RolledBack =>
    \A k \in 1..Len(driverLog) :
       /\ driverLog[k].type = CREATE =>
            \A i \in 1..Len(identityMap) : identityMap[i].entity # driverLog[k].entity
       /\ driverLog[k].type = DELETE => Registered(driverLog[k].entity)

\* a managed entity whose live name differs from its snapshot
NameChanged(x) ==
  /\ Registered(x) /\ ini[x]
  /\ originalEntityData[x].has /\ originalEntityData[x].name # name[x]

\* the list holds an UPDATE for x whose payload contains the name
UpdatesName(list, x) ==
  \E i \in 1..Len(list) :
     /\ list[i].type = UPDATE /\ list[i].entity = x
     /\ "name" \in list[i].payload.fields

\* the name change of x is still computed after the call merge(e)
KeptThroughMerge(s, x) == UpdatesName(computeChangeSets(s).changeSets, x)

\* C37: a pending field change is never lost through merge: when the live name of a
\* managed entity differs from its snapshot and merge is called on it, or reaches it
\* through a cascade from another entity, the next computation of change sets still
\* holds an UPDATE with that field.
C37_MergeKeepsChanges ==
  phase = "idle" =>
    \A e \in Ent, x \in Ent :
       NameChanged(x) => KeptThroughMerge(merge(Fresh(St), e, TRUE), x)

\* the entities a persist cascade can step to from x: the targets of its relations whose
\* cascade set includes persist, x being initialized and the collection loaded
PersistTargets(x) ==
  IF ~ini[x] THEN {}
  ELSE (IF ref[x] # 0 /\ Eligible(RefProp(scn, ClassOf(scn, x)), CascadePERSIST)
        THEN {ref[x]} ELSE {})
       \cup
       (IF coll[x].initialized /\ Eligible(ItemsProp(scn, ClassOf(scn, x)), CascadePERSIST)
        THEN {coll[x].items[i] : i \in 1..Len(coll[x].items)} ELSE {})

RECURSIVE PersistReach(_, _)
PersistReach(S, n) ==
  IF n = 0 THEN S ELSE PersistReach(S \cup UNION {PersistTargets(x) : x \in S}, n - 1)

\* the entities the unit of work tracks: on the persist stack or in the registry
TrackedRoots == {e \in Ent : Includes(persistStack, e) \/ Registered(e)}

\* every new, initialized entity of the set has exactly one CREATE in the list
AllCreated(list, S) ==
  \A x \in S : (pk[x] = 0 /\ ini[x]) => Cardinality(CreatesOf(list, x)) = 1

\* C38: at commit time every new, initialized entity that is reachable from an entity on
\* the persist stack or in the registry through relations whose cascade set includes
\* persist gets exactly one CREATE change set, also when it entered a collection of a
\* persisted, not yet committed owner after the persist() call.
C38_ReachableNewEntitiesCreated ==
  phase = "idle" =>
    AllCreated(computeChangeSets(St).changeSets, PersistReach(TrackedRoots, NumEnt))

\* the last operation was a commit() that returned without error
CommitSucceeded == phase = "idle" /\ hist.op = "commit" /\ hist.outcome \in {"ok", "noop"}

\* C39: after a successful commit() an immediately following commit() computes no change
\* set, has no collection update and no extra update, and therefore makes no driver call
\* and opens no transaction.
C39_CommitIdempotent ==
  CommitSucceeded => NothingToDo(computeChangeSets(St))

\* C40: work registered while a commit() is suspended is not dropped: a new entity
\* passed to persist() during the suspension has been written by that commit or is
\* still on the persist stack when the commit ends, and a second commit() started
\* during the suspension keeps every change set the first one has not applied yet
CommitEnds == Suspended /\ phase' = "idle"

Written(log, e) == \E i \in 1..Len(log) : log[i].entity = e /\ log[i].type = CREATE

NotDropped == \A e \in hist.during : Written(driverLog', e) \/ Includes(persistStack', e)

SecondCommitStarts == Suspended /\ commits' = commits + 1

KeepsUnapplied ==
  \A i \in csIdx..Len(changeSets) :
    \E j \in 1..Len(changeSets') :
      changeSets'[j].entity = changeSets[i].entity /\ changeSets'[j].type = changeSets[i].type

C40_SuspendedWorkKept ==
  [][(CommitEnds => NotDropped) /\ (SecondCommitStarts => KeepsUnapplied)]_vars

====
